---- MODULE Spec2Model ----
(***************************************************************************)
(* A model of clue::CommandLine<T> (src/include/clue/clue.h): the registry *)
(* built by Optional / Positional, and ParseArgs, taken one outer loop     *)
(* iteration at a time and followed by the required-arguments sweep.       *)
(*                                                                         *)
(* A token is a sequence of one-character strings.  argv is a sequence of  *)
(* tokens; the C index i is position i + 1 of the sequence, so argv[0]     *)
(* (the program name) is Head(argv) and argc is Len(argv).                 *)
(***************************************************************************)
EXTENDS Integers, Sequences, FiniteSets, TLC

\* ------------------------------------------------------------------ bounds
\* Most Optional registrations the host makes.
MaxOptionals == 2
\* Most Positional registrations the host makes.
MaxPositionals == 2
\* Most tokens after argv[0] on the scalar host's command line.
MaxTokens == 3
\* Most tokens after argv[0] on the vector host's command line.
MaxVecTokens == 4
\* Tokens after argv[0] on a command line of the re-registering host, and
\* the diagnostics after which that host stops calling the parser again.
MaxRegTokens == 2
MaxDiagnostics == 1
\* Tokens after argv[0] on a command line of the loop host.
MaxLoopTokens == 3
\* Tokens after argv[0] on a command line of the host that parses twice.
MaxAgainTokens == 2
\* Tokens after argv[0] on a command line of the host of scalar optionals.
MaxScalarTokens == 3
\* StringBuilder::maxLineLen_, 80 in the source: the line width is scaled
\* down so that TLC can enumerate every text that overflows a line.
maxLineLen_ == 4
\* Longest text handed to AppendNatural, largest indent, longest fragment
\* handed to AppendAtomic, and the number of characters of the buffer that
\* are kept (what is appended beyond it is dropped).
MaxStrLen == 6
MaxIndent == 2
MaxFragment == 5
MaxOut == 16
\* AppendAtomic calls made on the usage builder.
MaxAtomicCalls == 3
\* Tokens after argv[0] on a command line of the sizes host.
MaxSizeTokens == 3
\* Tokens after argv[0] on a command line of the value host.
MaxValTokens == 3
\* Tokens after argv[0] on a command line of the array host.
MaxArrTokens == 6

\* ------------------------------------------------------------- ParseFlags
kNone == 0
kNoExitOnError == 1
kSkipUnrecognized == 2
kNoAutoHelp == 4
kNoDefault == 8
kRequired == 16

\* flags & k, for a single-bit k.
HasFlag(flags, k) == (flags \div k) % 2 = 1

\* std::numeric_limits<int>::max() and min().
IntMax == 2147483647
IntMin == (-2147483647) - 1
\* std::numeric_limits<size_t>::max(), the default maxArgs: the largest
\* integer TLC can hold stands for it (no count ever reaches it).
SizeMax == 2147483647

\* ------------------------------------------------------------------ tokens
DigitChars == <<"0", "1", "2", "3", "4", "5", "6", "7", "8", "9">>
IsDigit(c) == \E i \in 1..Len(DigitChars) : DigitChars[i] = c
DigitVal(c) == (CHOOSE i \in 1..Len(DigitChars) : DigitChars[i] = c) - 1

\* argc and argv[i] in the C indexing.
Argc(av) == Len(av)
ArgvAt(av, i) == av[i + 1]

\* std::string_view::substr(1) of a token of size >= 1.
Substr1(token) == SubSeq(token, 2, Len(token))

\* The four reserved help spellings of ParseArgs.
HelpSpellings ==
    { <<"-", "h">>, <<"-", "h", "e", "l", "p">>,
      <<"-", "-", "h", "e", "l", "p">>, <<"/", "?">> }
IsHelpToken(token) == token \in HelpSpellings

\* ----------------------------------------------------------- std::from_chars
\* Whether acc extended by the digit d still fits an int, and acc so extended
\* (the sign is applied while accumulating).
Fits(neg, acc, d) ==
    IF neg THEN acc >= (IntMin + d + 9) \div 10 ELSE acc <= (IntMax - d) \div 10
Extend(neg, acc, d) == IF neg THEN acc * 10 - d ELSE acc * 10 + d

\* The digits of tok from position p on, accumulated the way from_chars
\* does: stopping at the first non-digit, and flagging a value that leaves
\* [IntMin, IntMax] (ovf) while still consuming the remaining digits.
RECURSIVE AccumulateDigits(_, _, _, _, _)
AccumulateDigits(tok, p, neg, acc, ovf) ==
    IF p > Len(tok) \/ ~IsDigit(tok[p])
    THEN [v |-> acc, ovf |-> ovf, ptr |-> p]
    ELSE IF ovf \/ ~Fits(neg, acc, DigitVal(tok[p]))
    THEN AccumulateDigits(tok, p + 1, neg, acc, TRUE)
    ELSE AccumulateDigits(tok, p + 1, neg, Extend(neg, acc, DigitVal(tok[p])),
                          FALSE)

\* The result of from_chars once the digits from start on are accumulated
\* in r: "invalid_argument" when no digit was found, "result_out_of_range"
\* when the digits do not fit an int, and "ok" otherwise; ptr is the
\* position after the last digit consumed (ParseInt never looks at it).
FromCharsResult(start, r) ==
    IF r.ptr = start THEN [ec |-> "invalid_argument", v |-> 0, ptr |-> 1]
    ELSE IF r.ovf THEN [ec |-> "result_out_of_range", v |-> 0, ptr |-> r.ptr]
    ELSE [ec |-> "ok", v |-> r.v, ptr |-> r.ptr]

\* std::from_chars(first, last, int&): an optional '-', then base-10 digits.
HasMinus(tok) == Len(tok) >= 1 /\ tok[1] = "-"
FirstDigit(tok) == IF HasMinus(tok) THEN 2 ELSE 1
FromChars(tok) ==
    FromCharsResult(FirstDigit(tok),
                    AccumulateDigits(tok, FirstDigit(tok), HasMinus(tok), 0, FALSE))

\* The diagnostic ParseInt hands to ReportError ("none" when reportErrors is
\* false).
Reported(reportErrors, err) == IF reportErrors THEN err ELSE "none"

\* ParseInt on the token at idx, r being from_chars of that token.
ParseIntToken(idx, reportErrors, r) ==
    IF r.ec = "invalid_argument"
    THEN [argIndex |-> idx, success |-> FALSE, v |-> 0,
          err |-> Reported(reportErrors, "MalformedValue")]
    ELSE IF r.ec = "result_out_of_range"
    THEN [argIndex |-> idx, success |-> FALSE, v |-> 0,
          err |-> Reported(reportErrors, "OutOfRange")]
    ELSE [argIndex |-> idx, success |-> TRUE, v |-> r.v, err |-> "none"]

\* ParseInt taking a missing token for a zero.
ParseIntDefaultsMissing(av, argIndex, reportErrors) ==
    IF argIndex + 1 >= Argc(av)
    THEN [argIndex |-> argIndex + 1, success |-> TRUE, v |-> 0, err |-> "none"]
    ELSE ParseIntToken(argIndex + 1, reportErrors,
                       FromChars(ArgvAt(av, argIndex + 1)))

\* The ParseInt lambda of ParseArgs: advance the cursor, then read argv
\* there.  err is the diagnostic ReportError is called with.
ParseInt(av, argIndex, reportErrors) ==
    IF argIndex + 1 >= Argc(av)
    THEN [argIndex |-> argIndex + 1, success |-> FALSE, v |-> 0,
          err |-> Reported(reportErrors, "MissingValue")]
    ELSE ParseIntToken(argIndex + 1, reportErrors,
                       FromChars(ArgvAt(av, argIndex + 1)))

\* ------------------------------------------------------------------ strtof
\* The position after the digits of tok that start at position p.
RECURSIVE DigitRunEnd(_, _)
DigitRunEnd(tok, p) ==
    IF p > Len(tok) \/ ~IsDigit(tok[p]) THEN p ELSE DigitRunEnd(tok, p + 1)

\* strtof(token, nullptr) / strtod(token, nullptr) on the tokens of this
\* model, which hold digits, letters and '-' (no '.', exponent, blank, sign
\* '+', "inf" or "nan"): the number written by the longest prefix that is an
\* optional '-' and digits, and zero when there is no such prefix.  A
\* floating value is kept as the text that denotes it.
FloatZero == <<"0">>
StrToF(tok) ==
    IF DigitRunEnd(tok, FirstDigit(tok)) = FirstDigit(tok)
    THEN FloatZero
    ELSE SubSeq(tok, 1, DigitRunEnd(tok, FirstDigit(tok)) - 1)

\* The ParseFloat and ParseDouble lambdas of ParseArgs.  No token of this
\* model is long enough for strtof to return HUGE_VAL, so the out-of-range
\* return is never taken.
ParseFloat(av, argIndex) ==
    IF argIndex + 1 >= Argc(av)
    THEN [argIndex |-> argIndex + 1, success |-> FALSE, v |-> FloatZero,
          err |-> "MissingValue"]
    ELSE [argIndex |-> argIndex + 1, success |-> TRUE,
          v |-> StrToF(ArgvAt(av, argIndex + 1)), err |-> "none"]

\* ------------------------------------------------------ destination binding
\* Storage is split as DataPointer splits it: fields of the aggregate T that
\* ParseArgs constructs (member = TRUE, a U T::*), and variables of the host
\* program (member = FALSE, a U*).  sto is [t |-> aggregate, ext |-> host].
Get(sto, arg) == IF arg.member THEN sto.t[arg.dest] ELSE sto.ext[arg.dest]
Put(sto, arg, v) ==
    IF arg.member
    THEN [sto EXCEPT !.t = [@ EXCEPT ![arg.dest] = v]]
    ELSE [sto EXCEPT !.ext = [@ EXCEPT ![arg.dest] = v]]

\* MakeArg: the Arg a registration call stores.  Every overload writes
\* Arg{value, name, description, flags, isPositional}, an aggregate
\* initialization of the members argument, name, description, flags, wasSet,
\* isPositional in that order: the fifth initializer lands in wasSet, and
\* isPositional keeps its default member initializer, false.
MakeArg(call, isPositional) ==
    [name |-> call.name, kind |-> call.kind, dest |-> call.dest,
     member |-> call.member, flags |-> call.flags, size |-> call.size,
     minArgs |-> call.minArgs, maxArgs |-> call.maxArgs,
     wasSet |-> isPositional, isPositional |-> FALSE]

\* ParseArray / ParseArrayMemberVariant: parse element curr, curr + 1, ...
\* of the array arr (1-based here), writing each element as soon as it is
\* parsed (ParseArrayElement, r being its ParseInt) and stopping at the
\* first element that fails.
RECURSIVE ParseArray(_, _, _, _)
RECURSIVE ParseArrayElement(_, _, _, _)

\* ParseArrayElement storing the pair's value even when the parse failed.
ParseArrayElementStoresFailure(av, arr, curr, r) ==
    IF ~r.success
    THEN [argIndex |-> r.argIndex, success |-> FALSE,
          arr |-> [arr EXCEPT ![curr] = r.v], err |-> r.err]
    ELSE ParseArray(av, r.argIndex, [arr EXCEPT ![curr] = r.v], curr + 1)

ParseArrayElement(av, arr, curr, r) ==
    IF ~r.success
    THEN [argIndex |-> r.argIndex, success |-> FALSE, arr |-> arr, err |-> r.err]
    ELSE ParseArray(av, r.argIndex, [arr EXCEPT ![curr] = r.v], curr + 1)
ParseArray(av, argIndex, arr, curr) ==
    IF curr > Len(arr)
    THEN [argIndex |-> argIndex, success |-> TRUE, arr |-> arr, err |-> "none"]
    ELSE ParseArrayElement(av, arr, curr, ParseInt(av, argIndex, TRUE))

\* The loop of ParseVector over the cleared vector: push every value that
\* parses (ParseVectorPush, r being its ParseInt); on the first parse
\* failure step the cursor back and stop.
RECURSIVE ParseVectorLoop(_, _, _)
RECURSIVE ParseVectorPush(_, _, _)

\* ParseVectorPush leaving the cursor on the token that failed to parse.
ParseVectorPushNoStepBack(av, vec, r) ==
    IF ~r.success
    THEN [argIndex |-> r.argIndex, vec |-> vec]
    ELSE ParseVectorLoop(av, r.argIndex, Append(vec, r.v))

ParseVectorPush(av, vec, r) ==
    IF ~r.success
    THEN [argIndex |-> r.argIndex - 1, vec |-> vec]
    ELSE ParseVectorLoop(av, r.argIndex, Append(vec, r.v))
ParseVectorLoop(av, argIndex, vec) ==
    IF argIndex <= Argc(av)
    THEN ParseVectorPush(av, vec, ParseInt(av, argIndex, FALSE))
    ELSE [argIndex |-> argIndex, vec |-> vec]

\* ParseVector without the clear, on a destination that holds the two
\* default elements the examples give it.
ParseVectorNoClear(av, argIndex) == ParseVectorLoop(av, argIndex, <<1, 2>>)

\* ParseVector: clear the destination, then consume.  The count the code
\* returns is the number of values pushed, Len(vec).
ParseVector(av, argIndex) == ParseVectorLoop(av, argIndex, <<>>)

\* ------------------------------------------------------------ parsing engine
\* The first descriptor of args_ whose name is token.substr(1), as an index
\* into args_ (0: none).  Tokens of size 0 are not looked up.
FindOptional(args, token) ==
    IF Len(token) >= 1 /\ \E k \in 1..Len(args) : args[k].name = Substr1(token)
    THEN CHOOSE k \in 1..Len(args) :
            /\ args[k].name = Substr1(token)
            /\ \A j \in 1..(k - 1) : args[j].name # Substr1(token)
    ELSE 0

\* The branches of the variant dispatch of ParseArgs.  Each result holds the
\* cursor, whether the argument was parsed to completion (ok), the
\* diagnostic reported when it was not, and the storage.
\* DataPointer<int>: r is ParseInt().
IntScalar(arg, sto, r) ==
    IF ~r.success
    THEN [argIndex |-> r.argIndex, ok |-> FALSE, err |-> r.err, sto |-> sto]
    ELSE [argIndex |-> r.argIndex, ok |-> TRUE, err |-> "none",
          sto |-> Put(sto, arg, r.v)]

\* DataPointer<float> and DataPointer<double>: r is ParseFloat().
FloatScalar(arg, sto, r) ==
    IF ~r.success
    THEN [argIndex |-> r.argIndex, ok |-> FALSE, err |-> r.err, sto |-> sto]
    ELSE [argIndex |-> r.argIndex, ok |-> TRUE, err |-> "none",
          sto |-> Put(sto, arg, r.v)]

\* Array<int> and ArrayMemberVariant<int>: r is ParseArray(..).
IntArray(arg, sto, r) ==
    [argIndex |-> r.argIndex, ok |-> r.success, err |-> r.err,
     sto |-> Put(sto, arg, r.arr)]

\* ArityError with the upper check off by one.
ArityErrorStrictMax(c, minArgs, maxArgs) == c < minArgs \/ c >= maxArgs

\* The two arity checks that follow ParseVector, c being the count.
ArityError(c, minArgs, maxArgs) == c < minArgs \/ c > maxArgs

\* IntVector with the destination cut to maxArgs values.
IntVectorCapped(arg, sto, r) ==
    IF ArityError(Len(r.vec), arg.minArgs, arg.maxArgs)
    THEN [argIndex |-> r.argIndex, ok |-> FALSE, err |-> "ArityViolation",
          sto |-> Put(sto, arg,
                      IF Len(r.vec) > arg.maxArgs
                      THEN SubSeq(r.vec, 1, arg.maxArgs) ELSE r.vec)]
    ELSE [argIndex |-> r.argIndex, ok |-> TRUE, err |-> "none",
          sto |-> Put(sto, arg, r.vec)]

\* Vector<int> and VectorMember<int>: r is ParseVector(..).
IntVector(arg, sto, r) ==
    IF ArityError(Len(r.vec), arg.minArgs, arg.maxArgs)
    THEN [argIndex |-> r.argIndex, ok |-> FALSE, err |-> "ArityViolation",
          sto |-> Put(sto, arg, r.vec)]
    ELSE [argIndex |-> r.argIndex, ok |-> TRUE, err |-> "none",
          sto |-> Put(sto, arg, r.vec)]

\* BoolFlag storing true instead of the complement.
BoolFlagSetsTrue(argIndex, arg, sto) ==
    [argIndex |-> argIndex, ok |-> TRUE, err |-> "none",
     sto |-> Put(sto, arg, TRUE)]

\* DataPointer<bool>.
BoolFlag(argIndex, arg, sto) ==
    [argIndex |-> argIndex, ok |-> TRUE, err |-> "none",
     sto |-> Put(sto, arg, ~Get(sto, arg))]

\* StringScalar reading the token at the cursor instead of the next one.
StringScalarAtCursor(av, idx, arg, sto) ==
    IF idx >= Argc(av)
    THEN [argIndex |-> idx, ok |-> FALSE, err |-> "MissingValue", sto |-> sto]
    ELSE [argIndex |-> idx, ok |-> TRUE, err |-> "none",
          sto |-> Put(sto, arg, ArgvAt(av, idx - 1))]

\* StringScalar refusing a value token that starts with a dash.
StringScalarRefusesDash(av, idx, arg, sto) ==
    IF idx >= Argc(av) \/ ArgvAt(av, idx)[1] = "-"
    THEN [argIndex |-> idx, ok |-> FALSE, err |-> "MissingValue", sto |-> sto]
    ELSE [argIndex |-> idx, ok |-> TRUE, err |-> "none",
          sto |-> Put(sto, arg, ArgvAt(av, idx))]

\* StringVariant.
StringScalar(av, idx, arg, sto) ==
    IF idx >= Argc(av)
    THEN [argIndex |-> idx, ok |-> FALSE, err |-> "MissingValue", sto |-> sto]
    ELSE [argIndex |-> idx, ok |-> TRUE, err |-> "none",
          sto |-> Put(sto, arg, ArgvAt(av, idx))]

\* The variant dispatch for the target descriptor arg, entered with the
\* cursor at argIndex.
ParseVariant(av, argIndex, arg, sto) ==
    CASE arg.kind = "int" -> IntScalar(arg, sto, ParseInt(av, argIndex, TRUE))
      [] arg.kind = "float" -> FloatScalar(arg, sto, ParseFloat(av, argIndex))
      [] arg.kind = "array" ->
            IntArray(arg, sto, ParseArray(av, argIndex, Get(sto, arg), 1))
      [] arg.kind = "vector" -> IntVector(arg, sto, ParseVector(av, argIndex))
      [] arg.kind = "bool" -> BoolFlag(argIndex, arg, sto)
      [] arg.kind = "string" -> StringScalar(av, argIndex + 1, arg, sto)

\* ErrorOutcome with the return after ReportError left out: the loop goes on.
ErrorOutcomeNoReturn(flags) ==
    IF HasFlag(flags, kNoExitOnError) THEN "continue" ELSE "exit"

\* What ReportError leads to: std::exit(1) unless kNoExitOnError is among the
\* flags ParseArgs stored, and otherwise the caller's return {t, false}.
ErrorOutcome(flags) ==
    IF HasFlag(flags, kNoExitOnError) THEN "return_false" ELSE "exit"

\* HelpOutcome with help treated as one more reported error.
HelpOutcomeAsError(flags) ==
    IF HasFlag(flags, kNoExitOnError) THEN "return_false" ELSE "exit"

\* What a help token leads to: PrintUsage, then std::exit(1).
HelpOutcome(flags) == "exit"

\* The result of an iteration of the token loop: the loop's state at the
\* end of the body (before the for statement's argIndex++), the outcome
\* ("continue", "return_false" or "exit"), the diagnostic, whether usage was
\* printed, and a record of what the iteration did: the token it started at,
\* how the token was resolved, the descriptor (an index into args_ or
\* positionalArgs_), whether the argument completed, the last token index
\* the cursor reached, and the value its destination was left with.
Loop(argIndex, cpa, sto, args, pos, outcome, err, usage, how, idx, ok, tok) ==
    [argIndex |-> argIndex, currentPositionalArg |-> cpa, sto |-> sto,
     args |-> args, pos |-> pos, outcome |-> outcome, err |-> err,
     usage |-> usage,
     did |-> [tok |-> tok, how |-> how, idx |-> idx, ok |-> ok,
              last |-> argIndex,
              val |-> CASE how = "optional" -> <<Get(sto, args[idx])>>
                        [] how = "positional" -> <<Get(sto, pos[idx])>>
                        [] OTHER -> <<>>]]

\* arg.wasSet = true, for descriptor k of the list when the argument completed.
MarkSet(list, k, ok) == IF ok THEN [list EXCEPT ![k].wasSet = TRUE] ELSE list

\* The iteration for a token that named optional descriptor k, r being the
\* variant dispatch of args_[k].
OptionalArg(flags, tok, cpa, args, pos, k, r) ==
    Loop(r.argIndex, cpa, r.sto, MarkSet(args, k, r.ok), pos,
         IF r.ok THEN "continue" ELSE ErrorOutcome(flags), r.err, FALSE,
         "optional", k, r.ok, tok)

\* PositionalArg with the positional cursor left where it was.
PositionalArgSameCursor(flags, tok, cpa, args, pos, r) ==
    Loop(r.argIndex, cpa, r.sto, args, MarkSet(pos, cpa + 1, r.ok),
         IF r.ok THEN "continue" ELSE ErrorOutcome(flags), r.err, FALSE,
         "positional", cpa + 1, r.ok, tok)

\* The iteration for a token taken as positional descriptor cpa + 1: the
\* positional cursor moves on, and r is the variant dispatch entered one
\* token back.
PositionalArg(flags, tok, cpa, args, pos, r) ==
    Loop(r.argIndex, cpa + 1, r.sto, args, MarkSet(pos, cpa + 1, r.ok),
         IF r.ok THEN "continue" ELSE ErrorOutcome(flags), r.err, FALSE,
         "positional", cpa + 1, r.ok, tok)

\* Unrecognized skipping the token after the unrecognized one as well.
UnrecognizedSkipsTwo(flags, argIndex, cpa, sto, args, pos) ==
    IF ~HasFlag(flags, kSkipUnrecognized)
    THEN Loop(argIndex, cpa, sto, args, pos, ErrorOutcome(flags),
              "UnrecognizedArgument", FALSE, "unrecognized", 0, FALSE, argIndex)
    ELSE Loop(argIndex + 1, cpa, sto, args, pos, "continue", "none", FALSE,
              "unrecognized", 0, FALSE, argIndex)

\* The iteration for a token that is neither a name nor a positional.
Unrecognized(flags, argIndex, cpa, sto, args, pos) ==
    IF ~HasFlag(flags, kSkipUnrecognized)
    THEN Loop(argIndex, cpa, sto, args, pos, ErrorOutcome(flags),
              "UnrecognizedArgument", FALSE, "unrecognized", 0, FALSE, argIndex)
    ELSE Loop(argIndex, cpa, sto, args, pos, "continue", "none", FALSE,
              "unrecognized", 0, FALSE, argIndex)

\* The iteration for a help token.
Help(flags, argIndex, cpa, sto, args, pos) ==
    Loop(argIndex, cpa, sto, args, pos, HelpOutcome(flags), "none", TRUE,
         "help", 0, FALSE, argIndex)

\* Resolve with the help test made after the name and positional lookups.
ResolveHelpLast(av, flags, argIndex, cpa, sto, args, pos, token, k) ==
    IF k # 0
    THEN OptionalArg(flags, argIndex, cpa, args, pos, k,
                     ParseVariant(av, argIndex, args[k], sto))
    ELSE IF cpa < Len(pos)
    THEN PositionalArg(flags, argIndex, cpa, args, pos,
                       ParseVariant(av, argIndex - 1, pos[cpa + 1], sto))
    ELSE IF ~HasFlag(flags, kNoAutoHelp) /\ IsHelpToken(token)
    THEN Help(flags, argIndex, cpa, sto, args, pos)
    ELSE Unrecognized(flags, argIndex, cpa, sto, args, pos)

\* One iteration of the token loop once the token is read and looked up
\* among the optional descriptors (k).
Resolve(av, flags, argIndex, cpa, sto, args, pos, token, k) ==
    IF ~HasFlag(flags, kNoAutoHelp) /\ IsHelpToken(token)
    THEN Help(flags, argIndex, cpa, sto, args, pos)
    ELSE IF k # 0
    THEN OptionalArg(flags, argIndex, cpa, args, pos, k,
                     ParseVariant(av, argIndex, args[k], sto))
    ELSE IF cpa < Len(pos)
    THEN PositionalArg(flags, argIndex, cpa, args, pos,
                       ParseVariant(av, argIndex - 1, pos[cpa + 1], sto))
    ELSE Unrecognized(flags, argIndex, cpa, sto, args, pos)

\* One iteration of the token loop of ParseArgs, entered with the cursor at
\* argIndex < argc.
Iteration(av, flags, argIndex, cpa, sto, args, pos) ==
    Resolve(av, flags, argIndex, cpa, sto, args, pos, ArgvAt(av, argIndex),
            FindOptional(args, ArgvAt(av, argIndex)))

\* The descriptors the required-arguments sweep reports: positionals first,
\* then optionals, each required (by its own flags or by the flags of the
\* call) and not set.
IsMissing(flags, arg) ==
    (HasFlag(flags, kRequired) \/ HasFlag(arg.flags, kRequired)) /\ ~arg.wasSet
MissingRequired(flags, args, pos) ==
    SelectSeq(pos, LAMBDA a : IsMissing(flags, a))
        \o SelectSeq(args, LAMBDA a : IsMissing(flags, a))

\* The end of ParseArgs after the token loop: with something missing,
\* PrintUsage and ReportError (std::exit(1) unless kNoExitOnError); whenever
\* control comes back from that, return {t, true}.
SweepOutcome(flags, missing) ==
    IF missing # <<>> /\ ~HasFlag(flags, kNoExitOnError)
    THEN "exit" ELSE "return_true"

\* ------------------------------------------------------------ host programs
\* A registration call as the host writes it: Optional(valuePtr, name, ..,
\* flags), Optional<minArgs, maxArgs>(vector, ..) or Positional(valuePtr,
\* name, .., flags).  size is the N of a std::array destination.
Call(name, kind, dest, member, flags, size, minArgs, maxArgs) ==
    [name |-> name, kind |-> kind, dest |-> dest, member |-> member,
     flags |-> flags, size |-> size, minArgs |-> minArgs, maxArgs |-> maxArgs]

\* The aggregate as T's default member initializers leave it (struct Args of
\* the examples), and the host's own variables before the parse.
DefaultT ==
    [count |-> 1, message |-> <<"H", "i">>, hello |-> FALSE,
     numbers |-> <<1, 2>>, veci |-> <<1, 2, 3>>, f |-> FloatZero]
HostVars ==
    [out |-> <<>>, raw_veci |-> <<0, 0, 0>>, flag |-> TRUE, none |-> <<>>,
     big |-> <<0, 0, 0, 0, 0, 0, 0, 0, 0, 0, 0>>]

\* The scalar host: -n <int> (required or not), the flag -1, and the
\* positionals m (a member string) and o (a string variable of the host).
OptionalCalls ==
    { Call(<<"n">>, "int", "count", TRUE, f, 0, 0, 0) : f \in {kNone, kRequired} }
        \cup { Call(<<"1">>, "bool", "hello", TRUE, kNone, 0, 0, 0) }
PositionalCalls ==
    { Call(<<"m">>, "string", "message", TRUE, kNone, 0, 0, 0),
      Call(<<"o">>, "string", "out", FALSE, kNone, 0, 0, 0) }

\* The vector host: -v <int[1:2]>, -n <int>, the flag -1 and the positional m.
VecOptionalCalls ==
    { Call(<<"v">>, "vector", "numbers", TRUE, kNone, 0, 1, 2),
      Call(<<"n">>, "int", "count", TRUE, kNone, 0, 0, 0),
      Call(<<"1">>, "bool", "hello", TRUE, kNone, 0, 0, 0) }
VecPositionalCalls ==
    { Call(<<"m">>, "string", "message", TRUE, kNone, 0, 0, 0) }

\* The array host: -a <int int int> into a member array, and the host's own
\* array either as -r <int int int> or as the positional q.
ArrOptionalCalls ==
    { Call(<<"a">>, "array", "veci", TRUE, kNone, 3, 0, 0),
      Call(<<"r">>, "array", "raw_veci", FALSE, kNone, 3, 0, 0) }
ArrPositionalCalls ==
    { Call(<<"q">>, "array", "raw_veci", FALSE, kNone, 3, 0, 0) }

\* The re-registering host: it registers -n <int> and the flags -n and -1
\* (two of its calls use one name) and the positional m, before or after a
\* ParseArgs call.
RegOptionalCalls ==
    { Call(<<"n">>, "int", "count", TRUE, kNone, 0, 0, 0),
      Call(<<"n">>, "bool", "hello", TRUE, kNone, 0, 0, 0),
      Call(<<"1">>, "bool", "flag", FALSE, kNone, 0, 0, 0) }
RegPositionalCalls ==
    { Call(<<"m">>, "string", "message", TRUE, kNone, 0, 0, 0) }

\* The loop host: -v <int[0:2]> and -n <int>, and the positionals z (a
\* std::array<int, 0> of the host, which MakeArg turns into an Array with
\* begin = end) and m.
LoopOptionalCalls ==
    { Call(<<"v">>, "vector", "numbers", TRUE, kNone, 0, 0, 2),
      Call(<<"n">>, "int", "count", TRUE, kNone, 0, 0, 0) }
LoopPositionalCalls ==
    { Call(<<"z">>, "array", "none", FALSE, kNone, 0, 0, 0),
      Call(<<"m">>, "string", "message", TRUE, kNone, 0, 0, 0) }

\* The sizes N of the alternatives of ArrayMemberVariant<U>, std::array<U, N>
\* T::*.
ArrayMemberVariant == 1..10

\* MakeArg with an Arg that every std::array member pointer converts to.
MakeArgCompilesAnySize(call) == TRUE

\* Whether the registration call compiles: Arg{member, ..} needs the member
\* pointer to be an alternative of one of the variants, which for a
\* std::array member means a size of ArrayMemberVariant.  A pointer to a
\* std::array<U, N> of the host is turned into Array<U>{begin, end} by its
\* own MakeArg overload, for every N.
MakeArgCompiles(call) ==
    (call.kind = "array" /\ call.member) => call.size \in ArrayMemberVariant

\* The sizes host, as its author writes it before the first build: arrays
\* of 3, 11 and 0 ints, members of T (veci, eleven, empty) and variables of
\* the host (big, none).
SizeOptionalCalls ==
    { Call(<<"a">>, "array", "veci", TRUE, kNone, 3, 0, 0),
      Call(<<"c">>, "array", "eleven", TRUE, kNone, 11, 0, 0),
      Call(<<"e">>, "array", "empty", TRUE, kNone, 0, 0, 0),
      Call(<<"b">>, "array", "big", FALSE, kNone, 11, 0, 0) }
SizePositionalCalls ==
    { Call(<<"z">>, "array", "none", FALSE, kNone, 0, 0, 0) }

\* The host that parses twice with one CommandLine: -n <int> (required),
\* the flag -1 and the positional m.
AgainOptionalCalls ==
    { Call(<<"n">>, "int", "count", TRUE, kRequired, 0, 0, 0),
      Call(<<"1">>, "bool", "hello", TRUE, kNone, 0, 0, 0) }
AgainPositionalCalls ==
    { Call(<<"m">>, "string", "message", TRUE, kNone, 0, 0, 0) }

\* The host of scalar optionals: two of -n <int>, -f <float>, -s <string>
\* and the flag -1.
ScalarOptionalCalls ==
    { Call(<<"n">>, "int", "count", TRUE, kNone, 0, 0, 0),
      Call(<<"f">>, "float", "f", TRUE, kNone, 0, 0, 0),
      Call(<<"s">>, "string", "out", FALSE, kNone, 0, 0, 0),
      Call(<<"1">>, "bool", "hello", TRUE, kNone, 0, 0, 0) }

\* The value host: two of -n <int>, -f <float>, -s <string> and
\* -a <int int int>, and the positionals m and q.
ValOptionalCalls ==
    { Call(<<"n">>, "int", "count", TRUE, kNone, 0, 0, 0),
      Call(<<"f">>, "float", "f", TRUE, kNone, 0, 0, 0),
      Call(<<"s">>, "string", "out", FALSE, kNone, 0, 0, 0),
      Call(<<"a">>, "array", "veci", TRUE, kNone, 3, 0, 0) }
ValPositionalCalls ==
    { Call(<<"m">>, "string", "message", TRUE, kNone, 0, 0, 0),
      Call(<<"q">>, "array", "raw_veci", FALSE, kNone, 3, 0, 0) }

\* The flags of a ParseArgs call: at most one of kRequired, kNoAutoHelp and
\* kSkipUnrecognized, with or without kNoExitOnError.
FlagInputs ==
    { f + e : f \in {kNone, kRequired, kNoAutoHelp, kSkipUnrecognized},
              e \in {kNone, kNoExitOnError} }
VecFlagInputs == {kNone, kNoExitOnError}

\* Command lines: argv[0], then at most n tokens of the vocabulary.
ProgramName == <<"p">>
RECURSIVE TokenLists(_, _)
TokenLists(vocab, n) ==
    IF n = 0 THEN {<<>>}
    ELSE LET shorter == TokenLists(vocab, n - 1)
         IN  shorter \cup { Append(l, tok) : l \in shorter, tok \in vocab }
ArgvInputs(vocab, n) == { <<ProgramName>> \o l : l \in TokenLists(vocab, n) }

\* The tokens a user of the host types: the registered option names with
\* their dash, and values - an int, a word, and an int too large.
TooLarge == <<"2", "1", "4", "7", "4", "8", "3", "6", "4", "8">>
OptionTokens(args) == { <<"-">> \o args[k].name : k \in 1..Len(args) }
Vocabulary(args) ==
    { <<"-", "h">>, <<"7">>, <<"x">>, TooLarge } \cup OptionTokens(args)
VecVocabulary(args) == { <<"7">>, <<"x">>, TooLarge } \cup OptionTokens(args)
\* The re-registering host's users also type a name behind a letter, and
\* an int with a letter behind it.
UndashedTokens(args) == { <<"x">> \o args[k].name : k \in 1..Len(args) }
RegVocabulary(args) ==
    VecVocabulary(args) \cup UndashedTokens(args) \cup { <<"7", "x">> }
ArrVocabulary(args) == { <<"7">>, <<"8">>, <<"x">> } \cup OptionTokens(args)
ScalarVocabulary(args) == { <<"-", "h">>, <<"7">> } \cup OptionTokens(args)

\* ----------------------------------------------------------- help formatter
\* std::to_string(int): the decimal digits, behind a '-' for a negative
\* value.
RECURSIVE NatToString(_)
NatToString(n) ==
    IF n < 10 THEN <<DigitChars[n + 1]>>
    ELSE Append(NatToString(n \div 10), DigitChars[(n % 10) + 1])
to_string(n) == IF n < 0 THEN <<"-">> \o NatToString(-n) ELSE NatToString(n)

\* std::to_string(float) and (double): "%f" of the value, which for the
\* whole numbers of this model is its digits and six zeros behind the point.
FloatToString(v) == v \o <<".", "0", "0", "0", "0", "0", "0">>

\* The ArrayDefault lambda of DescribeArg: the elements, space-joined.
RECURSIVE ArrayDefault(_)
ArrayDefault(arr) ==
    IF arr = <<>> THEN <<>>
    ELSE IF Len(arr) = 1 THEN to_string(arr[1])
    ELSE to_string(arr[1]) \o <<" ">> \o ArrayDefault(Tail(arr))

\* What DescribeArg leaves in defaultBuilder for arg: the destination read
\* as DataPointer::Get(t), Array::begin, Vector::vec and the member pointers
\* read it (a member pointer is applied to the aggregate sto.t, the pointer
\* to a host variable is dereferenced), formatted by kind.
DefaultText(arg, sto) ==
    CASE arg.kind = "int" -> to_string(Get(sto, arg))
      [] arg.kind \in {"array", "vector"} -> ArrayDefault(Get(sto, arg))
      [] arg.kind = "float" -> FloatToString(Get(sto, arg))
      [] arg.kind = "string" -> Get(sto, arg)
      [] arg.kind = "bool" -> IF Get(sto, arg) THEN <<"t", "r", "u", "e">>
                                               ELSE <<"f", "a", "l", "s", "e">>

\* The "(Default: ..)" text DescribeArg appends for arg, <<>> when
\* kNoDefault suppresses it.  The aggregate it reads is PrintUsage's own
\* const static T t = {}; ext is the host's variables as they are when
\* PrintUsage runs.
DescribeArg(flags, arg, ext) ==
    IF ~HasFlag(flags, kNoDefault) /\ ~HasFlag(arg.flags, kNoDefault)
    THEN <<DefaultText(arg, [t |-> DefaultT, ext |-> ext])>>
    ELSE <<>>

\* The defaults PrintUsage prints: DescribeArg over args_, then over
\* positionalArgs_.
PrintUsage(flags, args, pos, ext) ==
    [k \in 1..(Len(args) + Len(pos)) |->
        DescribeArg(flags, IF k <= Len(args) THEN args[k]
                                             ELSE pos[k - Len(args)], ext)]

\* ---------------------------------------------------------- StringBuilder
\* A StringBuilder is [buf_, lineLen_]; i_ is Len(buf_).  Text positions are
\* the C indices, from 0.
CharAt(str, i) == str[i + 1]
Whitespace == {" ", "\t"}
Spaces(n) == [k \in 1..n |-> " "]

\* vsnprintf into buf_ + i_ after Grow: the text lands behind what the
\* buffer holds.
Written(buf, text) ==
    IF Len(buf) + Len(text) <= MaxOut THEN buf \o text
    ELSE SubSeq(buf \o text, 1, MaxOut)

\* AppendAndGrow(len, fmt, vaList): lineLen_ += added, i_ += added.
AppendAndGrow(sb, text) ==
    [buf_ |-> Written(sb.buf_, text), lineLen_ |-> sb.lineLen_ + Len(text)]

\* AppendChar(c, count) / AppendCharAndGrow.
AppendChar(sb, c, count) == AppendAndGrow(sb, [k \in 1..count |-> c])

\* NewLine(): '\n', then lineLen_ = 0.
NewLine(sb) == [AppendAndGrow(sb, <<"\n">>) EXCEPT !.lineLen_ = 0]

\* What printf's "%.*s" writes for precision n and the string &str[from],
\* whose terminating NUL is at str[length]: n characters at most, and the
\* whole rest of the string when n is negative (a negative precision is
\* taken as if it were omitted).
PrecisionS(str, from, n) ==
    IF n < 0 \/ from + n > Len(str) THEN SubSeq(str, from + 1, Len(str))
    ELSE SubSeq(str, from + 1, from + n)

\* The locals of AppendNatural when it is entered on the builder sb; copied
\* is the input text it has handed to AppendAndGrow so far, broke whether
\* the last iteration inserted a line break, before the builder at entry.
NaturalLocals(sb, indent, str) ==
    [op |-> "AppendNatural", indent |-> indent, str |-> str, cursor |-> 0,
     currentLineStart |-> 0, lastBreakablePos |-> 0, copied |-> <<>>,
     broke |-> FALSE, before |-> sb]

\* The record of the input text handed to AppendAndGrow, text being handed
\* over now: one character more than the input has is all that is kept.
Copied(c, text) ==
    IF Len(c.copied) + Len(text) <= Len(c.str) THEN c.copied \o text
    ELSE SubSeq(c.copied \o text, 1, Len(c.str) + 1)

\* lastBreakablePos after the whitespace test at the top of the loop body.
BreakablePos(c) ==
    IF CharAt(c.str, c.cursor) \in Whitespace THEN c.cursor
    ELSE c.lastBreakablePos

\* The newline branch of the loop body: the line up to and including the
\* newline, lineLen_ = 0, the indent.
NaturalNewline(sb, c, text) ==
    [sb |-> AppendChar([AppendAndGrow(sb, text) EXCEPT !.lineLen_ = 0],
                       " ", c.indent),
     c |-> [c EXCEPT !.lastBreakablePos = BreakablePos(c),
                     !.cursor = c.cursor + 1,
                     !.currentLineStart = c.cursor + 1,
                     !.copied = Copied(c, text),
                     !.broke = FALSE]]

\* NaturalBreak resuming the scan one character too far.
NaturalBreakSkipsOne(sb, c, lbp, text) ==
    [sb |-> AppendChar(NewLine(AppendAndGrow(sb, text)), " ", c.indent),
     c |-> [c EXCEPT !.lastBreakablePos = lbp,
                     !.cursor = lbp + 2,
                     !.currentLineStart = lbp + 2,
                     !.copied = Copied(c, text),
                     !.broke = TRUE]]

\* The overflow branch of the loop body: the line up to lastBreakablePos
\* (lbp), NewLine, the indent, and the scan goes on behind lbp.
NaturalBreak(sb, c, lbp, text) ==
    [sb |-> AppendChar(NewLine(AppendAndGrow(sb, text)), " ", c.indent),
     c |-> [c EXCEPT !.lastBreakablePos = lbp,
                     !.cursor = lbp + 1,
                     !.currentLineStart = lbp + 1,
                     !.copied = Copied(c, text),
                     !.broke = TRUE]]

\* Whether the overflow test of the loop body holds.
NaturalOverflow(sb, c) ==
    c.cursor - c.currentLineStart + sb.lineLen_ > maxLineLen_

\* One iteration of the while loop of AppendNatural.
NaturalIteration(sb, c) ==
    IF CharAt(c.str, c.cursor) = "\n"
    THEN NaturalNewline(sb, c,
             PrecisionS(c.str, c.currentLineStart,
                        c.cursor - c.currentLineStart + 1))
    ELSE IF NaturalOverflow(sb, c)
    THEN NaturalBreak(sb, c, BreakablePos(c),
             PrecisionS(c.str, c.currentLineStart,
                        BreakablePos(c) - c.currentLineStart + 1))
    ELSE [sb |-> sb,
          c |-> [c EXCEPT !.lastBreakablePos = BreakablePos(c),
                          !.cursor = c.cursor + 1,
                          !.broke = FALSE]]

\* The AppendAndGrow behind the loop of AppendNatural.
NaturalRest(c) ==
    PrecisionS(c.str, c.currentLineStart, c.cursor - c.currentLineStart)

\* AppendAtomic(indent, fmt, ..) breaking the line one character late.
AppendAtomicBreaksLate(sb, indent, text) ==
    IF sb.lineLen_ + Len(text) > maxLineLen_ + 1
    THEN AppendAndGrow(AppendChar(NewLine(sb), " ", indent), text)
    ELSE AppendAndGrow(sb, text)

\* AppendAtomic(indent, fmt, ..), text being what the format expands to.
AppendAtomic(sb, indent, text) ==
    IF sb.lineLen_ + Len(text) > maxLineLen_
    THEN AppendAndGrow(AppendChar(NewLine(sb), " ", indent), text)
    ELSE AppendAndGrow(sb, text)

\* The texts of the model: descriptions made of a letter, blanks and
\* newlines, and fragments, which hold no blank.
RECURSIVE Texts(_, _)
Texts(alphabet, n) ==
    IF n = 0 THEN {<<>>}
    ELSE Texts(alphabet, n - 1)
           \cup { Append(s, ch) : s \in Texts(alphabet, n - 1), ch \in alphabet }
Descriptions == Texts({"a", " ", "\n"}, MaxStrLen)
Fragments == Texts({"f"}, MaxFragment) \ {<<>>}

\* ------------------------------------------------------------------- state
VARIABLES
    args_,                  \* std::vector<Arg> args_
    positionalArgs_,        \* std::vector<Arg> positionalArgs_
    currentFlags_,          \* ParseFlags currentFlags_
    argv,                   \* the command line of the ParseArgs call
    argIndex,               \* the token cursor of ParseArgs
    currentPositionalArg,   \* the positional cursor of ParseArgs
    t,                      \* the aggregate T t of ParseArgs
    ext,                    \* the host's variables bound by pointer
    pc,                     \* "main", "loop", "returned" or "exited"
    ret,                    \* <<success>> once ParseArgs returned {t, success}
    exitCode,               \* <<code>> once the process called std::exit
    stderr,                 \* the diagnostics ReportError printed, in order
    usagePrinted,           \* whether PrintUsage wrote the usage text
    trace,                  \* what each iteration of the token loop did
    buf_,                   \* StringBuilder: the first MaxOut chars of buf_
    lineLen_,               \* StringBuilder: int lineLen_
    appendCall,             \* the StringBuilder call in progress or made last
    sbpc                    \* "idle", "natural" (in the loop) or "done"

parser == <<args_, positionalArgs_, currentFlags_, argv, argIndex,
            currentPositionalArg, t, ext, pc, ret, exitCode, stderr,
            usagePrinted, trace>>
builder == <<buf_, lineLen_, appendCall, sbpc>>
vars == <<parser, builder>>

\* No StringBuilder call made yet.  calls counts the calls made and fit
\* tells whether indent plus length stayed within the line for each of them.
NoCall == [op |-> "none", calls |-> 0, fit |-> TRUE]

Init ==
    /\ args_ = <<>>
    /\ positionalArgs_ = <<>>
    /\ currentFlags_ = kNone
    /\ argv = <<ProgramName>>
    /\ argIndex = 0
    /\ currentPositionalArg = 0
    /\ t = DefaultT
    /\ ext = HostVars
    /\ pc = "main"
    /\ ret = <<>>
    /\ exitCode = <<>>
    /\ stderr = <<>>
    /\ usagePrinted = FALSE
    /\ trace = <<>>
    /\ buf_ = <<>>
    /\ lineLen_ = 0
    /\ appendCall = NoCall
    /\ sbpc = "idle"

\* ----------------------------------------------------------------- actions
\* Whether name is free among the optional descriptors (the assertion of
\* Optional holds for every arg of args_).
NameIsFree(args, name) == \A k \in 1..Len(args) : name # args[k].name

\* The exit code of a failed Assert: ReportError first (std::exit(1) unless
\* kNoExitOnError is stored), then std::exit(-1).
AssertExitCode(flags) == IF HasFlag(flags, kNoExitOnError) THEN -1 ELSE 1

\* Optional with an Assert that reports and lets the registration go on.
OptionalReportsOnly(call) ==
    /\ pc = "main"
    /\ Len(args_) < MaxOptionals
    /\ args_' = Append(args_, MakeArg(call, FALSE))
    /\ stderr' = IF NameIsFree(args_, call.name) THEN stderr
                 ELSE Append(stderr, "DuplicateName")
    /\ UNCHANGED <<positionalArgs_, currentFlags_, argv, argIndex,
                   currentPositionalArg, t, ext, pc, ret, exitCode,
                   usagePrinted, trace>>
    /\ UNCHANGED builder

\* CommandLine::Optional, both overloads.
Optional(call) ==
    /\ pc = "main"
    /\ Len(args_) < MaxOptionals
    /\ IF NameIsFree(args_, call.name)
       THEN /\ args_' = Append(args_, MakeArg(call, FALSE))
            /\ UNCHANGED <<pc, exitCode, stderr>>
       ELSE /\ pc' = "exited"
            /\ exitCode' = <<AssertExitCode(currentFlags_)>>
            /\ stderr' = Append(stderr, "DuplicateName")
            /\ UNCHANGED args_
    /\ UNCHANGED <<positionalArgs_, currentFlags_, argv, argIndex,
                   currentPositionalArg, t, ext, ret, usagePrinted, trace>>
    /\ UNCHANGED builder

\* CommandLine::Positional.
Positional(call) ==
    /\ pc = "main"
    /\ Len(positionalArgs_) < MaxPositionals
    /\ positionalArgs_' = Append(positionalArgs_, MakeArg(call, TRUE))
    /\ UNCHANGED <<args_, currentFlags_, argv, argIndex, currentPositionalArg,
                   t, ext, pc, ret, exitCode, stderr, usagePrinted, trace>>
    /\ UNCHANGED builder

\* The hosts bind every destination once.
Unbound(call) ==
    /\ \A k \in 1..Len(args_) : args_[k].dest # call.dest
    /\ \A k \in 1..Len(positionalArgs_) : positionalArgs_[k].dest # call.dest

\* ParseArgs starting from descriptors none of which is set.
ParseArgsResetsWasSet(av, flags) ==
    /\ pc = "main"
    /\ currentFlags_' = flags
    /\ argv' = av
    /\ argIndex' = 1
    /\ currentPositionalArg' = 0
    /\ t' = DefaultT
    /\ pc' = "loop"
    /\ args_' = [k \in 1..Len(args_) |-> [args_[k] EXCEPT !.wasSet = FALSE]]
    /\ positionalArgs_' =
         [k \in 1..Len(positionalArgs_) |->
             [positionalArgs_[k] EXCEPT !.wasSet = FALSE]]
    /\ UNCHANGED <<ext, ret, exitCode, stderr, usagePrinted, trace>>
    /\ UNCHANGED builder

\* The entry of ParseArgs: store the flags, construct T t, start the loop.
ParseArgs(av, flags) ==
    /\ pc = "main"
    /\ currentFlags_' = flags
    /\ argv' = av
    /\ argIndex' = 1
    /\ currentPositionalArg' = 0
    /\ t' = DefaultT
    /\ pc' = "loop"
    /\ UNCHANGED <<args_, positionalArgs_, ext, ret, exitCode, stderr,
                   usagePrinted, trace>>
    /\ UNCHANGED builder

\* The state ParseArgs is left in by the iteration whose result is r: the
\* loop goes on with argIndex++, or ParseArgs returns {t, false}, or the
\* process exits with code 1.
AfterIteration(r) ==
    /\ args_' = r.args
    /\ positionalArgs_' = r.pos
    /\ currentPositionalArg' = r.currentPositionalArg
    /\ t' = r.sto.t
    /\ ext' = r.sto.ext
    /\ stderr' = IF r.err = "none" THEN stderr ELSE Append(stderr, r.err)
    /\ usagePrinted' = (usagePrinted \/ r.usage)
    /\ trace' = Append(trace, r.did)
    /\ argIndex' = IF r.outcome = "continue" THEN r.argIndex + 1 ELSE r.argIndex
    /\ pc' = CASE r.outcome = "continue" -> "loop"
               [] r.outcome = "return_false" -> "returned"
               [] r.outcome = "exit" -> "exited"
    /\ ret' = IF r.outcome = "return_false" THEN <<FALSE>> ELSE ret
    /\ exitCode' = IF r.outcome = "exit" THEN <<1>> ELSE exitCode

\* One iteration of the token loop.
ParseToken ==
    /\ pc = "loop"
    /\ argIndex < Argc(argv)
    /\ AfterIteration(Iteration(argv, currentFlags_, argIndex,
                                currentPositionalArg, [t |-> t, ext |-> ext],
                                args_, positionalArgs_))
    /\ UNCHANGED <<currentFlags_, argv>>
    /\ UNCHANGED builder

\* The state ParseArgs is left in by the required-arguments sweep.
AfterSweep(missing, outcome) ==
    /\ usagePrinted' = (usagePrinted \/ missing # <<>>)
    /\ stderr' = IF missing # <<>> THEN Append(stderr, "MissingRequired")
                                   ELSE stderr
    /\ pc' = IF outcome = "exit" THEN "exited" ELSE "returned"
    /\ exitCode' = IF outcome = "exit" THEN <<1>> ELSE exitCode
    /\ ret' = IF outcome = "exit" THEN ret ELSE <<outcome = "return_true">>

\* The code after the token loop: the required-arguments sweep and the
\* final return.
CheckRequired ==
    /\ pc = "loop"
    /\ argIndex >= Argc(argv)
    /\ AfterSweep(MissingRequired(currentFlags_, args_, positionalArgs_),
                  SweepOutcome(currentFlags_,
                      MissingRequired(currentFlags_, args_, positionalArgs_)))
    /\ UNCHANGED <<args_, positionalArgs_, currentFlags_, argv, argIndex,
                   currentPositionalArg, t, ext, trace>>
    /\ UNCHANGED builder

\* The host goes on after ParseArgs returned: the CommandLine keeps its
\* descriptors and flags, and the host may register or parse again.  The
\* history of the finished call is dropped.
Resume ==
    /\ pc = "returned"
    /\ Len(stderr) < MaxDiagnostics
    /\ pc' = "main"
    /\ ret' = <<>>
    /\ trace' = <<>>
    /\ UNCHANGED <<args_, positionalArgs_, currentFlags_, argv, argIndex,
                   currentPositionalArg, t, ext, exitCode, stderr,
                   usagePrinted>>
    /\ UNCHANGED builder

\* The state a StringBuilder call leaves the builder in.
AfterAppend(sb) ==
    /\ buf_' = sb.buf_
    /\ lineLen_' = sb.lineLen_

\* PrintUsage appends a fragment (a name with its type, a default) with
\* AppendAtomic(indent, ..); at most calls of them are made.
AppendAtomicCall(calls, indent, text) ==
    /\ sbpc = "idle"
    /\ appendCall.calls < calls
    /\ AfterAppend(AppendAtomic([buf_ |-> buf_, lineLen_ |-> lineLen_],
                                indent, text))
    /\ appendCall' = [op |-> "AppendAtomic", indent |-> indent, text |-> text,
                      calls |-> appendCall.calls + 1,
                      fit |-> appendCall.fit /\ indent + Len(text) <= maxLineLen_]
    /\ UNCHANGED <<sbpc, parser>>

\* PrintUsage hands a description to AppendNatural: the locals are set up.
AppendNaturalCall(indent, str) ==
    /\ sbpc = "idle"
    /\ appendCall' = NaturalLocals([buf_ |-> buf_, lineLen_ |-> lineLen_],
                                    indent, str)
    /\ sbpc' = "natural"
    /\ UNCHANGED <<buf_, lineLen_, parser>>

\* The builder and the locals after the iteration whose result is r.
AfterNaturalIteration(r) ==
    /\ AfterAppend(r.sb)
    /\ appendCall' = r.c

\* The while loop of AppendNatural runs its body once.
AppendNaturalLoop ==
    /\ sbpc = "natural"
    /\ appendCall.cursor < Len(appendCall.str)
    /\ AfterNaturalIteration(
           NaturalIteration([buf_ |-> buf_, lineLen_ |-> lineLen_], appendCall))
    /\ UNCHANGED <<sbpc, parser>>

\* The loop is left (cursor reached length): the rest of the text is
\* appended and AppendNatural returns.
AppendNaturalReturn ==
    /\ sbpc = "natural"
    /\ appendCall.cursor >= Len(appendCall.str)
    /\ AfterAppend(AppendAndGrow([buf_ |-> buf_, lineLen_ |-> lineLen_],
                                 NaturalRest(appendCall)))
    /\ appendCall' = [appendCall EXCEPT
                         !.copied = Copied(appendCall, NaturalRest(appendCall)),
                         !.broke = FALSE]
    /\ sbpc' = "done"
    /\ UNCHANGED parser

\* ---------------------------------------------------------- specifications
\* The scalar host: registrations in any order, then one ParseArgs call.
Next ==
    \/ \E call \in OptionalCalls : Unbound(call) /\ Optional(call)
    \/ \E call \in PositionalCalls : Unbound(call) /\ Positional(call)
    \/ /\ pc = "main"
       /\ \E flags \in FlagInputs :
            \E av \in ArgvInputs(Vocabulary(args_), MaxTokens) :
               ParseArgs(av, flags)
    \/ ParseToken
    \/ CheckRequired

Spec == Init /\ [][Next]_vars

\* The vector host.
VecNext ==
    \/ \E call \in VecOptionalCalls : Unbound(call) /\ Optional(call)
    \/ \E call \in VecPositionalCalls : Unbound(call) /\ Positional(call)
    \/ /\ pc = "main"
       /\ \E flags \in VecFlagInputs :
            \E av \in ArgvInputs(VecVocabulary(args_), MaxVecTokens) :
               ParseArgs(av, flags)
    \/ ParseToken
    \/ CheckRequired

SpecVec == Init /\ [][VecNext]_vars

\* The array host.
ArrNext ==
    \/ \E call \in ArrOptionalCalls : Unbound(call) /\ Optional(call)
    \/ \E call \in ArrPositionalCalls : Unbound(call) /\ Positional(call)
    \/ /\ pc = "main"
       /\ \E flags \in VecFlagInputs :
            \E av \in ArgvInputs(ArrVocabulary(args_), MaxArrTokens) :
               ParseArgs(av, flags)
    \/ ParseToken
    \/ CheckRequired

SpecArr == Init /\ [][ArrNext]_vars

\* The re-registering host.
RegNext ==
    \/ \E call \in RegOptionalCalls : Unbound(call) /\ Optional(call)
    \/ \E call \in RegPositionalCalls : Unbound(call) /\ Positional(call)
    \/ /\ pc = "main"
       /\ \E flags \in VecFlagInputs :
            \E av \in ArgvInputs(RegVocabulary(args_), MaxRegTokens) :
               ParseArgs(av, flags)
    \/ ParseToken
    \/ CheckRequired
    \/ Resume

SpecReg == Init /\ [][RegNext]_vars

\* The host that parses twice.
AgainNext ==
    \/ \E call \in AgainOptionalCalls : Unbound(call) /\ Optional(call)
    \/ \E call \in AgainPositionalCalls : Unbound(call) /\ Positional(call)
    \/ /\ pc = "main"
       /\ \E flags \in VecFlagInputs :
            \E av \in ArgvInputs(VecVocabulary(args_), MaxAgainTokens) :
               ParseArgs(av, flags)
    \/ ParseToken
    \/ CheckRequired
    \/ Resume

SpecAgain == Init /\ [][AgainNext]_vars

\* The host of scalar optionals.
ScalarNext ==
    \/ \E call \in ScalarOptionalCalls : Unbound(call) /\ Optional(call)
    \/ /\ pc = "main"
       /\ \E flags \in VecFlagInputs :
            \E av \in ArgvInputs(ScalarVocabulary(args_), MaxScalarTokens) :
               ParseArgs(av, flags)
    \/ ParseToken
    \/ CheckRequired

SpecScalar == Init /\ [][ScalarNext]_vars

\* The value host.
ValNext ==
    \/ \E call \in ValOptionalCalls : Unbound(call) /\ Optional(call)
    \/ \E call \in ValPositionalCalls : Unbound(call) /\ Positional(call)
    \/ /\ pc = "main"
       /\ \E flags \in VecFlagInputs :
            \E av \in ArgvInputs(ArrVocabulary(args_), MaxValTokens) :
               ParseArgs(av, flags)
    \/ ParseToken
    \/ CheckRequired

SpecVal == Init /\ [][ValNext]_vars

\* The sizes host: only the registration calls that compile are part of
\* the program that runs.
SizeNext ==
    \/ \E call \in SizeOptionalCalls :
          Unbound(call) /\ MakeArgCompiles(call) /\ Optional(call)
    \/ \E call \in SizePositionalCalls :
          Unbound(call) /\ MakeArgCompiles(call) /\ Positional(call)
    \/ /\ pc = "main"
       /\ \E flags \in VecFlagInputs :
            \E av \in ArgvInputs(ArrVocabulary(args_), MaxSizeTokens) :
               ParseArgs(av, flags)
    \/ ParseToken
    \/ CheckRequired

SpecSize == Init /\ [][SizeNext]_vars

\* The loop host, whose scheduler runs ParseArgs to its end: a process that
\* entered the token loop keeps executing it.
LoopNext ==
    \/ \E call \in LoopOptionalCalls : Unbound(call) /\ Optional(call)
    \/ \E call \in LoopPositionalCalls : Unbound(call) /\ Positional(call)
    \/ /\ pc = "main"
       /\ \E flags \in VecFlagInputs :
            \E av \in ArgvInputs(VecVocabulary(args_), MaxLoopTokens) :
               ParseArgs(av, flags)
    \/ ParseToken
    \/ CheckRequired

\* Weak fairness of the loop body, WF_vars(ParseToken), with ENABLED written
\* out: with the cursor before argc the body can always run, and running it
\* always changes the state (trace grows).
LoopBodyRuns ==
    \/ []<>(~(pc = "loop" /\ argIndex < Argc(argv)))
    \/ []<><<ParseToken>>_vars

SpecLoop ==
    Init /\ [][LoopNext]_vars /\ LoopBodyRuns /\ WF_vars(CheckRequired)

\* The description builder: the name of an argument (indent 0), then its
\* description handed to AppendNatural.
NaturalNext ==
    \/ \E text \in Fragments : AppendAtomicCall(1, 0, text)
    \/ \E indent \in 0..MaxIndent, str \in Descriptions :
           AppendNaturalCall(indent, str)
    \/ AppendNaturalLoop
    \/ AppendNaturalReturn

\* AppendNatural is straight-line code: once entered, it keeps running.
SpecNatural ==
    Init /\ [][NaturalNext]_vars
         /\ WF_vars(AppendNaturalLoop) /\ WF_vars(AppendNaturalReturn)

\* The usage builder: a sequence of AppendAtomic(indent, ..) calls.
AtomicNext ==
    \E indent \in 0..MaxIndent, text \in Fragments :
        AppendAtomicCall(MaxAtomicCalls, indent, text)

SpecAtomic == Init /\ [][AtomicNext]_vars

\* ------------------------------------------------------------------ claims
Last(seq) == seq[Len(seq)]
Sto == [t |-> t, ext |-> ext]
NoExit == HasFlag(currentFlags_, kNoExitOnError)
Finished == pc \in {"returned", "exited"}

\* The diagnostics raised while tokens are consumed.
TokenErrors ==
    {"UnrecognizedArgument", "MissingValue", "MalformedValue", "OutOfRange",
     "ArityViolation"}

\* The descriptor a trace entry is about, and the entries about arguments.
DescOf(e) == IF e.how = "optional" THEN args_[e.idx] ELSE positionalArgs_[e.idx]
IsArg(e) == e.how \in {"optional", "positional"}
Descriptors ==
    { args_[k] : k \in 1..Len(args_) }
        \cup { positionalArgs_[k] : k \in 1..Len(positionalArgs_) }
DefaultOf(arg) == IF arg.member THEN DefaultT[arg.dest] ELSE HostVars[arg.dest]

\* The token loop ran to its end: no token raised an error and none asked
\* for help.
LoopCompleted ==
    /\ Finished
    /\ \A i \in 1..Len(stderr) : stderr[i] \notin TokenErrors
    /\ \A i \in 1..Len(trace) : trace[i].how # "help"
SomethingMissing ==
    \E arg \in Descriptors :
        /\ HasFlag(currentFlags_, kRequired) \/ HasFlag(arg.flags, kRequired)
        /\ ~arg.wasSet

\* C1: when the token loop ends without error and a required descriptor was
\* not set, ParseArgs fails: the process exits with code 1, or with
\* kNoExitOnError ParseArgs returns success = false.
C1_MissingRequiredFails ==
    (LoopCompleted /\ SomethingMissing) =>
        IF NoExit THEN pc = "returned" /\ ret = <<FALSE>>
                  ELSE pc = "exited" /\ exitCode = <<1>>

\* C2: every error raised while tokens are consumed ends the parse at once:
\* the failing iteration is the last one, and the process has exited with
\* code 1, or with kNoExitOnError ParseArgs has returned success = false
\* and the process has not exited.
C2_TokenErrorEndsParse ==
    (\E i \in 1..Len(stderr) : stderr[i] \in TokenErrors) =>
        /\ Len(stderr) = 1
        /\ trace # <<>> /\ ~Last(trace).ok
        /\ \A i \in 1..(Len(trace) - 1) : trace[i].ok
        /\ IF NoExit THEN pc = "returned" /\ ret = <<FALSE>> /\ exitCode = <<>>
                     ELSE pc = "exited" /\ exitCode = <<1>> /\ ret = <<>>

\* C2 witness: an arity violation under kNoExitOnError, after an argument
\* that was parsed.
C2_Witness ==
    /\ stderr = <<"ArityViolation">>
    /\ NoExit /\ pc = "returned"
    /\ Len(trace) = 2

\* ParseArgs returned {t, false}.
Failed == pc = "returned" /\ ret = <<FALSE>>

\* Entry i is the last completed parse of its descriptor.
LastCompleted(i) ==
    /\ IsArg(trace[i]) /\ trace[i].ok
    /\ \A j \in (i + 1)..Len(trace) :
          ~(trace[j].ok /\ trace[j].how = trace[i].how /\ trace[j].idx = trace[i].idx)
Untouched(arg) ==
    \A i \in 1..Len(trace) : IsArg(trace[i]) => DescOf(trace[i]) # arg

\* C3: on failure every destination written by an earlier,
\* completed argument holds its parsed value, the failing iteration is the
\* last, and the destinations of arguments never reached hold their defaults.
C3_FailureKeepsEveryEarlierValue ==
    Failed =>
        /\ \A i \in 1..Len(trace) :
              LastCompleted(i) => <<Get(Sto, DescOf(trace[i]))>> = trace[i].val
        /\ ~Last(trace).ok
        /\ \A arg \in Descriptors : Untouched(arg) => Get(Sto, arg) = DefaultOf(arg)

\* The outer loop is about to read a help token with auto-help on.
HelpAtCursor ==
    /\ pc = "loop" /\ argIndex < Argc(argv)
    /\ ~HasFlag(currentFlags_, kNoAutoHelp)
    /\ IsHelpToken(ArgvAt(argv, argIndex))

\* C4: the iteration that reads a help token prints usage and ends the
\* parse without writing a destination or a wasSet flag; for the tokens
\* ["prog", "-h"] every destination holds its pre-parse value at the end.
C4_HelpWritesNothing ==
    /\ [][HelpAtCursor =>
            /\ t' = t /\ ext' = ext
            /\ args_' = args_ /\ positionalArgs_' = positionalArgs_
            /\ usagePrinted' /\ pc' = "exited"]_vars
    /\ []((Finished /\ argv = <<ProgramName, <<"-", "h">>>>
              /\ ~HasFlag(currentFlags_, kNoAutoHelp))
            => /\ t = DefaultT /\ ext = HostVars
               /\ \A k \in 1..Len(args_) : ~args_[k].wasSet)

\* C4 witness: help asked after a positional was filled, with a positional
\* descriptor still free.
C4_Witness ==
    /\ pc = "exited" /\ Len(trace) = 2 /\ Last(trace).how = "help"
    /\ trace[1].how = "positional" /\ Len(positionalArgs_) = 2
    /\ usagePrinted

\* C5 as claimed: a help token makes the process exit with code 1, or with
\* kNoExitOnError makes ParseArgs return success = false.
C5_HelpFollowsNoExitOnError ==
    (trace # <<>> /\ Last(trace).how = "help") =>
        IF NoExit THEN pc = "returned" /\ ret = <<FALSE>> /\ exitCode = <<>>
                  ELSE pc = "exited" /\ exitCode = <<1>>

\* C5 as amended: a help token makes the process exit with code 1 whether
\* or not kNoExitOnError is set; ParseArgs does not return.
C5_HelpAlwaysExits ==
    (trace # <<>> /\ Last(trace).how = "help") =>
        pc = "exited" /\ exitCode = <<1>> /\ ret = <<>> /\ usagePrinted

\* C5 witness: help under kNoExitOnError.
C5_Witness ==
    /\ trace # <<>> /\ Last(trace).how = "help"
    /\ NoExit /\ pc = "exited"

\* The number of positional entries among the first n entries of the trace.
RECURSIVE PositionalsIn(_)
PositionalsIn(n) ==
    IF n = 0 THEN 0
    ELSE PositionalsIn(n - 1) + (IF trace[n].how = "positional" THEN 1 ELSE 0)

\* The token the loop cursor was at for trace entry i.
TokenOf(i) == ArgvAt(argv, trace[i].tok)
AutoHelp == ~HasFlag(currentFlags_, kNoAutoHelp)
NamesOptional(token) == \E k \in 1..Len(args_) : args_[k].name = Substr1(token)

\* C6: positional descriptors are filled in registration order: the k-th
\* cursor token that names no optional (and asks for no help) goes to the
\* k-th positional descriptor, whatever optional arguments come before or
\* between; each string positional holds the token it was given.
C6_PositionalsInRegistrationOrder ==
    \A i \in 1..Len(trace) :
        /\ trace[i].how = "positional" =>
              /\ trace[i].idx = PositionalsIn(i - 1) + 1
              /\ ~NamesOptional(TokenOf(i))
              /\ trace[i].last = trace[i].tok
              /\ Get(Sto, positionalArgs_[trace[i].idx]) = TokenOf(i)
        /\ (/\ ~NamesOptional(TokenOf(i))
            /\ ~(AutoHelp /\ IsHelpToken(TokenOf(i)))
            /\ PositionalsIn(i - 1) < Len(positionalArgs_))
              => trace[i].how = "positional"

\* C6 witness: two positionals filled with an optional argument between.
C6_Witness ==
    /\ pc = "returned" /\ ret = <<TRUE>> /\ Len(trace) = 3
    /\ trace[1].how = "positional" /\ trace[1].idx = 1
    /\ trace[2].how = "optional"
    /\ trace[3].how = "positional" /\ trace[3].idx = 2
    /\ Get(Sto, positionalArgs_[1]) = <<"x">>
    /\ Get(Sto, positionalArgs_[2]) = <<"7">>

\* A token of one to nine decimal digits, and the number it writes.
IsDecimal(tok) ==
    /\ Len(tok) \in 1..9
    /\ \A p \in 1..Len(tok) : tok[p] \in {"0", "1", "2", "3", "4", "5", "6", "7", "8", "9"}
RECURSIVE DecimalOf(_)
DecimalOf(tok) ==
    IF tok = <<>> THEN 0
    ELSE 10 * DecimalOf(SubSeq(tok, 1, Len(tok) - 1))
           + (CHOOSE d \in 0..9 : ToString(d) = tok[Len(tok)])

\* A registry of one scalar int optional and one scalar string positional.
OneIntOneString ==
    /\ Len(args_) = 1 /\ args_[1].kind = "int"
    /\ Len(positionalArgs_) = 1 /\ positionalArgs_[1].kind = "string"
OptionToken == <<"-">> \o args_[1].name
NonOption(s) == ~NamesOptional(s) /\ ~IsHelpToken(s)

\* The two token lists of C7: the pair first, or the lone token first.
PairFirst ==
    /\ Len(argv) = 4 /\ argv[2] = OptionToken
    /\ IsDecimal(argv[3]) /\ NonOption(argv[4])
PairLast ==
    /\ Len(argv) = 4 /\ NonOption(argv[2])
    /\ argv[3] = OptionToken /\ IsDecimal(argv[4])

\* C7: with one scalar int optional O and one scalar string positional P,
\* the tokens "-O" v s and s "-O" v (v a valid int token, s a non-option
\* token) parse with success = true, O = v and P = s; the optional consumes
\* exactly the token after its name and the positional exactly its token.
C7_PairAndLoneTokenEitherOrder ==
    (pc # "main" /\ OneIntOneString /\ (PairFirst \/ PairLast)) =>
        /\ pc \in {"loop", "returned"} /\ stderr = <<>>
        /\ \A i \in 1..Len(trace) :
              /\ trace[i].ok
              /\ trace[i].how = "optional" => trace[i].last = trace[i].tok + 1
              /\ trace[i].how = "positional" => trace[i].last = trace[i].tok
        /\ pc = "returned" =>
              /\ ret = <<TRUE>> /\ Len(trace) = 2
              /\ Get(Sto, args_[1])
                    = DecimalOf(IF PairFirst THEN argv[3] ELSE argv[4])
              /\ Get(Sto, positionalArgs_[1])
                    = (IF PairFirst THEN argv[4] ELSE argv[2])

\* C7 witness: the lone token first, then the pair.
C7_Witness ==
    /\ OneIntOneString /\ PairLast /\ pc = "returned" /\ ret = <<TRUE>>
    /\ t.count = 7 /\ Get(Sto, positionalArgs_[1]) = <<"x">>

\* The trace entries of sequence arguments, and whether a token parses as
\* an int.
IsVector(i) == trace[i].how = "optional" /\ args_[trace[i].idx].kind = "vector"
ParsesAsInt(token) == FromChars(token).ec = "ok"
Consumed(i) == (trace[i].tok + 1)..trace[i].last

\* C8 as claimed: a sequence argument never consumes a token that names a
\* registered optional; it stops before it and the token is dispatched as
\* that optional.
C8_VectorStopsAtOptionalName ==
    \A i \in 1..Len(trace) :
        IsVector(i) => \A j \in Consumed(i) : ~NamesOptional(ArgvAt(argv, j))

\* C8 as amended: a sequence argument consumes every token up to the first
\* one that does not parse as an int (or the last token), whether or not a
\* consumed token names a registered optional; the token it stops at is the
\* next the loop resolves, as the optional it names when it names one.
C8_VectorStopsAtFirstNonInt ==
    \A i \in 1..Len(trace) :
        IsVector(i) =>
            /\ trace[i].tok <= trace[i].last /\ trace[i].last < Argc(argv)
            /\ \A j \in Consumed(i) : ParsesAsInt(ArgvAt(argv, j))
            /\ Len(trace[i].val[1]) = trace[i].last - trace[i].tok
            /\ \A j \in Consumed(i) :
                  trace[i].val[1][j - trace[i].tok] = FromChars(ArgvAt(argv, j)).v
            /\ trace[i].last + 1 < Argc(argv)
                  => ~ParsesAsInt(ArgvAt(argv, trace[i].last + 1))
            /\ i < Len(trace) =>
                  /\ trace[i + 1].tok = trace[i].last + 1
                  /\ (NamesOptional(TokenOf(i + 1)) /\ ~IsHelpToken(TokenOf(i + 1)))
                        => /\ trace[i + 1].how = "optional"
                           /\ args_[trace[i + 1].idx].name = Substr1(TokenOf(i + 1))

\* C8 witness: a sequence that consumed a token naming a registered
\* optional, and then stopped at an optional's name, which was dispatched.
C8_Witness ==
    /\ Len(trace) = 2 /\ IsVector(1) /\ trace[1].ok
    /\ trace[1].val = << <<-1>> >>
    /\ NamesOptional(ArgvAt(argv, 2))
    /\ trace[2].how = "optional" /\ trace[2].tok = 3 /\ trace[2].ok

\* C9: a sequence argument with bounds [minArgs, maxArgs] succeeds exactly
\* when the number c of values consumed has minArgs <= c <= maxArgs, and
\* fails with an arity error otherwise.
C9_ArityDecidesSuccess ==
    \A i \in 1..Len(trace) :
        IsVector(i) =>
            /\ trace[i].ok <=>
                  /\ args_[trace[i].idx].minArgs <= trace[i].last - trace[i].tok
                  /\ trace[i].last - trace[i].tok <= args_[trace[i].idx].maxArgs
            /\ ~trace[i].ok =>
                  /\ i = Len(trace) /\ stderr = <<"ArityViolation">>
                  /\ pc \in {"returned", "exited"}
            /\ trace[i].ok => args_[trace[i].idx].wasSet

\* C9 witness: a sequence argument that succeeded with maxArgs values.
C9_Witness ==
    /\ Len(trace) = 1 /\ IsVector(1) /\ trace[1].ok
    /\ trace[1].last - trace[1].tok = args_[1].maxArgs
    /\ pc = "returned" /\ ret = <<TRUE>>

\* The tokens after position j that parse as ints, up to the first that
\* does not.
RECURSIVE ParseableRun(_)
ParseableRun(j) ==
    IF j < Argc(argv) /\ ParsesAsInt(ArgvAt(argv, j))
    THEN 1 + ParseableRun(j + 1) ELSE 0
Overfull(i) ==
    IsVector(i) /\ ParseableRun(trace[i].tok + 1) > args_[trace[i].idx].maxArgs

\* C10 as claimed: when more than maxArgs parseable values follow a
\* sequence argument, the value at position maxArgs + 1 is not consumed, the
\* destination never holds more than maxArgs elements, and the parse fails
\* with an arity violation.
C10_VectorStopsAtMaxArgs ==
    \A i \in 1..Len(trace) :
        Overfull(i) =>
            /\ trace[i].last <= trace[i].tok + args_[trace[i].idx].maxArgs
            /\ Len(Get(Sto, args_[trace[i].idx])) <= args_[trace[i].idx].maxArgs
            /\ ~trace[i].ok /\ stderr = <<"ArityViolation">>

\* C10 as amended: when more than maxArgs parseable values follow a
\* sequence argument, all of them are consumed and appended, so that the
\* destination holds more than maxArgs elements, and the parse then fails
\* with an arity violation.
C10_VectorOverrunsThenFails ==
    \A i \in 1..Len(trace) :
        Overfull(i) =>
            /\ trace[i].last = trace[i].tok + ParseableRun(trace[i].tok + 1)
            /\ Len(Get(Sto, args_[trace[i].idx])) = ParseableRun(trace[i].tok + 1)
            /\ Get(Sto, args_[trace[i].idx])[args_[trace[i].idx].maxArgs + 1]
                  = FromChars(ArgvAt(argv, trace[i].tok + args_[trace[i].idx].maxArgs + 1)).v
            /\ ~trace[i].ok /\ i = Len(trace) /\ stderr = <<"ArityViolation">>
            /\ IF NoExit THEN pc = "returned" /\ ret = <<FALSE>>
                         ELSE pc = "exited" /\ exitCode = <<1>>

\* C10 witness: three values given to a sequence bounded by two.
C10_Witness ==
    /\ Len(trace) = 1 /\ Overfull(1)
    /\ t.numbers = <<7, 7, 7>> /\ args_[1].maxArgs = 2
    /\ pc = "returned" /\ ret = <<FALSE>>

\* The trace entries of fixed-array arguments; the cursor such an entry
\* started from (a positional re-reads its own token); the value its
\* destination held before it, and the number of its elements.
IsArray(i) == IsArg(trace[i]) /\ DescOf(trace[i]).kind = "array"
StartOf(i) == IF trace[i].how = "positional" THEN trace[i].tok - 1 ELSE trace[i].tok
RECURSIVE ValueBefore(_, _)
ValueBefore(i, j) ==
    IF j = 0 THEN DefaultOf(DescOf(trace[i]))
    ELSE IF IsArg(trace[j]) /\ DescOf(trace[j]).dest = DescOf(trace[i]).dest
    THEN trace[j].val[1]
    ELSE ValueBefore(i, j - 1)
SizeOf(i) == Len(DefaultOf(DescOf(trace[i])))
Min(a, b) == IF a < b THEN a ELSE b

\* The elements an array entry parsed: all of them, or those before the
\* first token that is missing or does not parse.
ParsedOf(i) == Min(ParseableRun(StartOf(i) + 1), SizeOf(i))

\* C11: a fixed-array argument of size N consumes exactly N tokens and
\* writes all N elements, or fails at the first element i whose token is
\* bad or missing; then elements before i hold the new values, the others
\* keep their previous values, and the argument does not set wasSet.
C11_ArrayAllOrPrefix ==
    /\ [](\A i \in 1..Len(trace) :
            IsArray(i) =>
                /\ trace[i].ok <=> ParsedOf(i) = SizeOf(i)
                /\ trace[i].ok =>
                      /\ trace[i].last = StartOf(i) + SizeOf(i)
                      /\ DescOf(trace[i]).wasSet
                /\ ~trace[i].ok =>
                      /\ trace[i].last = StartOf(i) + ParsedOf(i) + 1
                      /\ i = Len(trace) /\ Finished
                /\ Len(trace[i].val[1]) = SizeOf(i)
                /\ \A e \in 1..SizeOf(i) :
                      trace[i].val[1][e] =
                          IF e <= ParsedOf(i)
                          THEN DecimalOf(ArgvAt(argv, StartOf(i) + e))
                          ELSE ValueBefore(i, i - 1)[e])
    /\ [][(Len(trace') = Len(trace) + 1 /\ IsArray(Len(trace))'
              /\ ~Last(trace)'.ok) =>
            (args_' = args_ /\ positionalArgs_' = positionalArgs_)]_vars

\* C11 witness: an array filled once, then given again with a bad second
\* token: the first element is new, the others are those of the first time.
C11_Witness ==
    /\ Len(trace) = 2 /\ IsArray(1) /\ IsArray(2)
    /\ trace[1].ok /\ ~trace[2].ok
    /\ trace[1].val = << <<7, 7, 7>> >>
    /\ trace[2].val = << <<8, 7, 7>> >>
    /\ pc = "returned" /\ ret = <<FALSE>>

\* C12: registering an optional under a name already among the optionals
\* ends the process, whatever flags an earlier ParseArgs stored, and adds
\* no descriptor; so the names of the optional descriptors are always
\* pairwise distinct.
C12_DuplicateNameIsFatal ==
    /\ [](\A j, k \in 1..Len(args_) : args_[j].name = args_[k].name => j = k)
    /\ [][\A call \in RegOptionalCalls :
            (Optional(call) /\ ~NameIsFree(args_, call.name)) =>
                /\ pc' = "exited" /\ exitCode' \in {<<1>>, <<-1>>}
                /\ args_' = args_]_vars
    /\ [](Len(stderr) > 0 /\ Last(stderr) = "DuplicateName" => pc = "exited")

\* C12 witness: a duplicate registration after a ParseArgs call that stored
\* kNoExitOnError and returned.
C12_Witness ==
    /\ pc = "exited" /\ stderr = <<"DuplicateName">>
    /\ HasFlag(currentFlags_, kNoExitOnError)
    /\ exitCode = <<-1>> /\ Len(args_) = 1

\* The trace entries of boolean arguments, and the number of entries about
\* descriptor arg among the first n.
IsBool(i) == IsArg(trace[i]) /\ DescOf(trace[i]).kind = "bool"
RECURSIVE OccurrencesIn(_, _)
OccurrencesIn(arg, n) ==
    IF n = 0 THEN 0
    ELSE OccurrencesIn(arg, n - 1)
           + (IF IsArg(trace[n]) /\ DescOf(trace[n]).dest = arg.dest THEN 1 ELSE 0)
Toggled(initial, k) == IF k % 2 = 0 THEN initial ELSE ~initial

\* C13: a boolean optional consumes no value token and each occurrence
\* complements its destination: after k occurrences the destination is its
\* initial value for k even and the negation for k odd.
C13_BoolTogglesPerOccurrence ==
    /\ \A i \in 1..Len(trace) :
          IsBool(i) =>
              /\ trace[i].ok /\ trace[i].last = trace[i].tok
              /\ trace[i].how = "optional"
              /\ trace[i].val[1]
                    = Toggled(DefaultOf(DescOf(trace[i])),
                              OccurrencesIn(DescOf(trace[i]), i))
              /\ i < Len(trace) => trace[i + 1].tok = trace[i].tok + 1
    /\ \A arg \in Descriptors :
          (arg.kind = "bool" /\ pc # "main") =>
              Get(Sto, arg) = Toggled(DefaultOf(arg), OccurrencesIn(arg, Len(trace)))

\* C13 witness: the flag given twice, then once more with a false default:
\* false again after two, true after three.
C13_Witness ==
    /\ Len(trace) = 3 /\ IsBool(1) /\ IsBool(2) /\ IsBool(3)
    /\ trace[1].val = <<TRUE>> /\ trace[2].val = <<FALSE>>
    /\ t.hello = TRUE /\ pc = "returned" /\ ret = <<TRUE>>

\* The token is the dash marker followed by the name of descriptor k.
IsDashName(token, k) == token = <<"-">> \o args_[k].name
StartsWithDash(token) == Len(token) >= 1 /\ token[1] = "-"

\* C14: a token resolves to optional descriptor d exactly when it is the
\* dash marker followed by d's name; a token without the dash marker never
\* resolves to an optional; a name match wins over the positional fallback.
C14_OptionalIffDashName ==
    \A i \in 1..Len(trace) :
        trace[i].how # "help" =>
            /\ \A k \in 1..Len(args_) :
                  (trace[i].how = "optional" /\ trace[i].idx = k)
                      <=> IsDashName(TokenOf(i), k)
            /\ ~StartsWithDash(TokenOf(i)) => trace[i].how # "optional"

\* The trace entries of int scalars, and the tokens that are a base-10
\* integer from the first character to the last.
IsIntScalar(i) == IsArg(trace[i]) /\ DescOf(trace[i]).kind = "int"
IsWholeInt(tok) ==
    \/ IsDecimal(tok)
    \/ Len(tok) >= 2 /\ tok[1] = "-" /\ IsDecimal(SubSeq(tok, 2, Len(tok)))
    \/ tok = TooLarge

\* C15: the int scalar parser accepts a token only if the whole token is a
\* base-10 integer; a token with an integer prefix followed by other
\* characters fails as a malformed value and the destination is not written.
C15_IntNeedsWholeToken ==
    \A i \in 1..Len(trace) :
        (IsIntScalar(i) /\ StartOf(i) + 1 < Argc(argv)) =>
            /\ trace[i].ok => IsWholeInt(ArgvAt(argv, StartOf(i) + 1))
            /\ ~IsWholeInt(ArgvAt(argv, StartOf(i) + 1)) =>
                  /\ ~trace[i].ok /\ stderr = <<"MalformedValue">>
                  /\ trace[i].val = <<ValueBefore(i, i - 1)>>

\* The trace entries of arguments that take a value, and the index of the
\* token such an entry went on to read when it stopped or finished.
TakesValue(i) ==
    IsArg(trace[i]) /\ DescOf(trace[i]).kind \in {"int", "float", "string", "array"}
NeededToken(i) ==
    IF IsArray(i) THEN StartOf(i) + ParsedOf(i) + 1 ELSE StartOf(i) + 1
RanOutOfTokens(i) ==
    /\ TakesValue(i)
    /\ NeededToken(i) >= Argc(argv)
    /\ IsArray(i) => ParsedOf(i) < SizeOf(i)

\* C16: when a value-taking argument (a scalar or the element of a fixed
\* array) needs a token and none remains, the parse fails with a
\* missing-value error raised for that argument, and the slot that was to
\* receive the value is left as it was.
C16_MissingValueFailsAndKeepsSlot ==
    /\ [](\A i \in 1..Len(trace) :
            RanOutOfTokens(i) =>
                /\ ~trace[i].ok /\ i = Len(trace)
                /\ stderr # <<>> /\ Last(stderr) = "MissingValue"
                /\ IF NoExit THEN pc = "returned" /\ ret = <<FALSE>>
                             ELSE pc = "exited" /\ exitCode = <<1>>
                /\ ~IsArray(i) => Get(Sto, DescOf(trace[i])) = trace[i].val[1])
    /\ []((stderr # <<>> /\ Last(stderr) = "MissingValue" /\ pc # "main") =>
            RanOutOfTokens(Len(trace)))
    /\ [][(pc = "loop" /\ Len(trace') = Len(trace) + 1
             /\ RanOutOfTokens(Len(trace))') =>
            IF IsArray(Len(trace))'
            THEN Get(Sto, DescOf(Last(trace)))'[ParsedOf(Len(trace))' + 1]
                    = Get(Sto, DescOf(Last(trace))')[ParsedOf(Len(trace))' + 1]
            ELSE Get(Sto, DescOf(Last(trace)))'
                    = Get(Sto, DescOf(Last(trace))')]_vars

\* C16 witness: an array whose second element has no token left.
C16_Witness ==
    /\ Len(trace) = 1 /\ IsArray(1) /\ RanOutOfTokens(1) /\ ParsedOf(1) = 1
    /\ t.veci = <<7, 2, 3>> /\ stderr = <<"MissingValue">>
    /\ pc = "returned" /\ ret = <<FALSE>>

\* The loop is about to read a token that asks for no help, names no
\* optional and finds no positional descriptor left.
UnrecognizedAtCursor ==
    /\ pc = "loop" /\ argIndex < Argc(argv)
    /\ ~(AutoHelp /\ IsHelpToken(ArgvAt(argv, argIndex)))
    /\ ~NamesOptional(ArgvAt(argv, argIndex))
    /\ currentPositionalArg >= Len(positionalArgs_)

\* C17: a token that matches no optional name while no positional
\* descriptor remains is unrecognized: by default the parse fails at once;
\* with kSkipUnrecognized the cursor advances by one, the aggregate, the
\* external destinations, the positional cursor and the wasSet flags stay
\* as they are, and parsing continues.
C17_UnrecognizedFailsOrSkips ==
    [][UnrecognizedAtCursor =>
          IF HasFlag(currentFlags_, kSkipUnrecognized)
          THEN /\ argIndex' = argIndex + 1 /\ pc' = "loop"
               /\ t' = t /\ ext' = ext
               /\ currentPositionalArg' = currentPositionalArg
               /\ args_' = args_ /\ positionalArgs_' = positionalArgs_
               /\ stderr' = stderr /\ ret' = ret /\ exitCode' = exitCode
          ELSE /\ stderr' = Append(stderr, "UnrecognizedArgument")
               /\ t' = t /\ ext' = ext
               /\ IF NoExit THEN pc' = "returned" /\ ret' = <<FALSE>>
                            ELSE pc' = "exited" /\ exitCode' = <<1>>]_vars

\* C17 witness: an unrecognized token skipped, the argument after it parsed.
C17_Witness ==
    /\ HasFlag(currentFlags_, kSkipUnrecognized)
    /\ Len(trace) = 2 /\ trace[1].how = "unrecognized"
    /\ trace[2].how = "optional" /\ trace[2].ok /\ trace[2].tok = 2
    /\ t.count = 7 /\ pc = "returned" /\ ret = <<TRUE>>

\* C18: the token loop of ParseArgs terminates, it makes at most argc - 1
\* iterations, and every iteration that goes on to another one has advanced
\* the token cursor by at least one.
C18_LoopBoundedByTokens ==
    /\ (pc = "loop") ~> Finished
    /\ [](pc # "main" => Len(trace) <= Argc(argv) - 1)
    /\ [][(pc = "loop" /\ pc' = "loop") => argIndex' >= argIndex + 1]_vars

\* C19: the "(Default: ..)" texts a help request prints are those of a
\* freshly default-initialized aggregate and of the destinations as they
\* were before the parse: they do not depend on the tokens parsed before the
\* help token.
HelpPrinted == pc = "exited" /\ trace # <<>> /\ Last(trace).how = "help"
C19_HelpDefaultsIgnoreParsedTokens ==
    HelpPrinted =>
        PrintUsage(currentFlags_, args_, positionalArgs_, ext)
            = PrintUsage(currentFlags_, args_, positionalArgs_, HostVars)

\* C20 as stated: every array destination accepted at registration has a
\* size between 1 and 10, so no array of another size reaches parsing.
C20_AcceptedArraySizeInRange ==
    \A arg \in Descriptors : arg.kind = "array" => arg.size \in 1..10

\* C20: every array destination that is a member of the aggregate and is
\* accepted at registration has a size between 1 and 10 (no other member
\* array registration compiles); an array of the host registered by pointer
\* is accepted with the size it has.
C20_AcceptedMemberArraySizeInRange ==
    \A arg \in Descriptors :
        (arg.kind = "array" /\ arg.member) => arg.size \in 1..10

\* C20 witness: the member array of 3 and the host's array of 11 both
\* registered, and the array of 11 reached by the parse, which wrote its
\* first two elements.
C20_Witness ==
    /\ Len(args_) = 2 /\ args_[1].dest = "veci" /\ args_[2].dest = "big"
    /\ args_[2].size = 11 /\ ~args_[2].member
    /\ Len(trace) = 1 /\ trace[1].how = "optional" /\ trace[1].idx = 2
    /\ SubSeq(ext.big, 1, 3) = <<7, 8, 0>>
    /\ pc = "returned" /\ ret = <<FALSE>>

\* C22: ParseArgs never resets a wasSet flag: its entry leaves the
\* descriptors as an earlier call left them, no step clears a flag that is
\* set, and the required-arguments sweep reports something exactly when a
\* required descriptor is not set, so an argument set by an earlier call and
\* absent from this call's tokens is not reported as missing.
StaysSet(list, list2) ==
    \A k \in 1..Len(list) : list[k].wasSet => (k <= Len(list2) /\ list2[k].wasSet)
RequiredUnset ==
    \E arg \in Descriptors :
        /\ HasFlag(currentFlags_, kRequired) \/ HasFlag(arg.flags, kRequired)
        /\ ~arg.wasSet
C22_WasSetSurvivesParseArgs ==
    /\ [][(pc = "main" /\ pc' = "loop")
            => (args_' = args_ /\ positionalArgs_' = positionalArgs_)]_vars
    /\ [][StaysSet(args_, args_')
            /\ StaysSet(positionalArgs_, positionalArgs_')]_vars
    /\ [][(pc = "loop" /\ argIndex >= Argc(argv) /\ pc' # "loop")
            => ((stderr' # stderr) <=> RequiredUnset)]_vars

\* C22 witness: a second call without tokens returned true and reported
\* nothing, the required -n being set by the call before it.
C22_Witness ==
    /\ Len(args_) >= 1 /\ args_[1].name = <<"n">> /\ args_[1].wasSet
    /\ HasFlag(args_[1].flags, kRequired)
    /\ Argc(argv) = 1 /\ trace = <<>>
    /\ pc = "returned" /\ ret = <<TRUE>> /\ stderr = <<>>

\* C23: in one parse on a fresh CommandLine a descriptor's wasSet is true
\* exactly when an occurrence of the argument was parsed to completion; an
\* occurrence whose parse failed does not set it.
ParsedToCompletion(arg) ==
    \E i \in 1..Len(trace) :
        IsArg(trace[i]) /\ trace[i].ok /\ DescOf(trace[i]).dest = arg.dest
C23_WasSetIffParsed ==
    \A arg \in Descriptors : arg.wasSet <=> ParsedToCompletion(arg)

\* Entry i is a scalar optional of one of the kinds, followed by a token
\* that is a help spelling or names a registered optional.
ScalarBeforeOption(i, kinds) ==
    /\ trace[i].how = "optional" /\ args_[trace[i].idx].kind \in kinds
    /\ trace[i].tok + 1 < Argc(argv)
    /\ \/ IsHelpToken(ArgvAt(argv, trace[i].tok + 1))
       \/ NamesOptional(ArgvAt(argv, trace[i].tok + 1))
FollowingToken(i) == ArgvAt(argv, trace[i].tok + 1)
NeverDispatched(i) == \A j \in 1..Len(trace) : trace[j].tok # trace[i].tok + 1

\* C24 as stated: the token after a scalar optional is never dispatched as
\* help or as an option; a string takes it as its value, and an int fails
\* on it.
C24_NextTokenValueOrFailure ==
    \A i \in 1..Len(trace) :
        /\ ScalarBeforeOption(i, {"int", "float", "string"}) => NeverDispatched(i)
        /\ ScalarBeforeOption(i, {"string"}) =>
              trace[i].ok /\ trace[i].val = <<FollowingToken(i)>>
        /\ ScalarBeforeOption(i, {"int"}) => ~trace[i].ok

\* C24: the token after a scalar optional is never dispatched as help or
\* as an option.  A string takes it as its value; a float takes the number
\* strtof reads from it (zero for a help spelling); an int takes it when
\* it parses as an int, as "-1" does when an optional is named 1, and fails
\* on it otherwise.
C24_NextTokenIsTheValue ==
    \A i \in 1..Len(trace) :
        /\ ScalarBeforeOption(i, {"int", "float", "string"}) =>
              NeverDispatched(i) /\ trace[i].last = trace[i].tok + 1
        /\ ScalarBeforeOption(i, {"string"}) =>
              trace[i].ok /\ trace[i].val = <<FollowingToken(i)>>
        /\ ScalarBeforeOption(i, {"float"}) =>
              trace[i].ok /\ trace[i].val = <<StrToF(FollowingToken(i))>>
        /\ ScalarBeforeOption(i, {"int"}) =>
              /\ trace[i].ok <=> ParsesAsInt(FollowingToken(i))
              /\ trace[i].ok => trace[i].val = <<FromChars(FollowingToken(i)).v>>

\* C24 witness: -n took -1, the name of a registered flag, as its value;
\* the flag was not toggled and the parse returned true.
C24_Witness ==
    /\ Len(trace) = 1 /\ ScalarBeforeOption(1, {"int"})
    /\ NamesOptional(FollowingToken(1))
    /\ t.count = -1 /\ ~t.hello /\ pc = "returned" /\ ret = <<TRUE>>
    /\ Argc(argv) = 3

\* The values written by the tokens from..to of the command line.
ValuesOf(from, to) ==
    [k \in 1..(to - from + 1) |-> FromChars(ArgvAt(argv, from + k - 1)).v]

\* C25: a sequence argument parsed with success leaves in its destination
\* exactly the values of the tokens that occurrence consumed, in token order:
\* no default element and no element of an earlier occurrence stays, and an
\* occurrence followed by no parseable value leaves the destination empty.
C25_VectorHoldsWhatItConsumed ==
    \A i \in 1..Len(trace) :
        (IsVector(i) /\ trace[i].ok) =>
            /\ trace[i].tok <= trace[i].last /\ trace[i].last < Argc(argv)
            /\ \A j \in Consumed(i) : ParsesAsInt(ArgvAt(argv, j))
            /\ trace[i].val = <<ValuesOf(trace[i].tok + 1, trace[i].last)>>
            /\ trace[i].last + 1 < Argc(argv)
                  => ~ParsesAsInt(ArgvAt(argv, trace[i].last + 1))

\* C25 witness: -v 7 -v: the first occurrence left <<7>>, the second one,
\* followed by no value, left the destination empty.
C25_Witness ==
    /\ Len(trace) = 2 /\ IsVector(1) /\ IsVector(2)
    /\ trace[1].val = <<<<7>>>> /\ trace[2].val = <<<<>>>>
    /\ t.numbers = <<>> /\ pc = "returned" /\ ret = <<TRUE>>

\* Iteration i ended at the bottom of the loop body (the loop went on or
\* ran out of tokens), rather than in a return or an exit.
ReachedLoopEnd(i) ==
    \/ trace[i].ok
    \/ trace[i].how = "unrecognized" /\ HasFlag(currentFlags_, kSkipUnrecognized)

\* C30: every iteration reads its token at an index of 1..argc - 1 and
\* starts consuming from a cursor that is not negative, and at the end of
\* every iteration the cursor lies in 1..argc - 1 and is not smaller than it
\* was at the start of the iteration.
C30_CursorStaysInRange ==
    \A i \in 1..Len(trace) :
        /\ trace[i].tok \in 1..(Argc(argv) - 1)
        /\ StartOf(i) >= 0
        /\ ReachedLoopEnd(i) =>
              /\ trace[i].last \in 1..(Argc(argv) - 1)
              /\ trace[i].last >= trace[i].tok


\* C21: AppendNatural terminates for every finite input, indent and initial
\* line length: a call that entered its loop returns.
C21_AppendNaturalTerminates == (sbpc = "natural") ~> (sbpc = "done")


\* The characters of a word: neither whitespace nor a newline.
WordChar(ch) == ch \notin Whitespace \cup {"\n"}

\* Position p of str lies inside a word: a word character on either side.
MidWord(str, p) ==
    /\ p \in 1..(Len(str) - 1)
    /\ WordChar(CharAt(str, p - 1))
    /\ WordChar(CharAt(str, p))

\* AppendNatural has just inserted a line break of its own.
JustBroke == sbpc = "natural" /\ appendCall.broke

\* C26: a line break AppendNatural inserts goes directly after a whitespace
\* character of the input, never between two characters of a word: the
\* text behind the break does not resume inside a word.
C26_NeverBreaksMidWord ==
    JustBroke => ~MidWord(appendCall.str, appendCall.currentLineStart)


\* The lines of a text, and a line without the whitespace at its end.
RECURSIVE LinesOf(_, _)
LinesOf(text, line) ==
    IF text = <<>> THEN <<line>>
    ELSE IF Head(text) = "\n" THEN <<line>> \o LinesOf(Tail(text), <<>>)
    ELSE LinesOf(Tail(text), Append(line, Head(text)))
RECURSIVE Trimmed(_)
Trimmed(line) ==
    IF line # <<>> /\ line[Len(line)] \in Whitespace
    THEN Trimmed(SubSeq(line, 1, Len(line) - 1))
    ELSE line

\* Every word of str is at most width characters long.
WordsFit(str, width) ==
    \A from \in 1..Len(str) : \A to \in from..Len(str) :
        (\A k \in from..to : WordChar(str[k])) => to - from + 1 <= width

\* AppendNatural returned and the whole of its output is held.
NaturalReturned ==
    sbpc = "done" /\ appendCall.op = "AppendNatural" /\ Len(buf_) < MaxOut

\* C27: every line AppendNatural emits is at most maxLineLen_ characters
\* long, counting the indent and the text already on the line, whenever
\* every word of the input fits within maxLineLen_ minus the indent (the
\* whitespace at the end of a line is not even counted).
C27_LinesWithinMaxLineLen ==
    (/\ NaturalReturned
     /\ appendCall.before.lineLen_ <= maxLineLen_
     /\ WordsFit(appendCall.str, maxLineLen_ - appendCall.indent))
    => \A k \in 1..Len(LinesOf(buf_, <<>>)) :
          Len(Trimmed(LinesOf(buf_, <<>>)[k])) <= maxLineLen_


\* C28: AppendNatural preserves its input: once it has returned, what it
\* copied to the output, leaving aside the breaks and indents it inserted,
\* is the input, nothing dropped and nothing duplicated.
C28_ReturnedInputPreserved ==
    (appendCall.op = "AppendNatural" /\ sbpc = "done")
        => appendCall.copied = appendCall.str

\* AppendNatural returned after breaking "aa aaa" behind its blank.
C28_Witness ==
    /\ sbpc = "done"
    /\ appendCall.op = "AppendNatural"
    /\ appendCall.str = <<"a", "a", " ", "a", "a", "a">>
    /\ appendCall.indent = 1
    /\ appendCall.copied = appendCall.str
    /\ buf_ = <<"a", "a", " ", "\n", " ", "a", "a", "a">>


\* An AppendAtomic(indent, ..) call is made in this step and the buffer
\* holds the whole of its output.
AtomicStep ==
    /\ sbpc = "idle"
    /\ appendCall'.op = "AppendAtomic"
    /\ appendCall'.calls = appendCall.calls + 1
    /\ Len(buf_') < MaxOut

\* What the step put behind the text the buffer held.
Appended == SubSeq(buf_', Len(buf_) + 1, Len(buf_'))

\* C29: AppendAtomic(indent, fragment) never splits a fragment and inserts
\* a line break followed by the indent exactly when lineLen_ plus the
\* fragment's length exceeds maxLineLen_; consequently no line is longer
\* than maxLineLen_ when indent plus length is within it for every fragment.
C29_AtomicBreaksOnlyOnOverflow ==
    /\ [][AtomicStep =>
            /\ Len(buf_') >= Len(buf_) /\ SubSeq(buf_', 1, Len(buf_)) = buf_
            /\ IF lineLen_ + Len(appendCall'.text) > maxLineLen_
               THEN Appended = <<"\n">> \o Spaces(appendCall'.indent)
                                        \o appendCall'.text
               ELSE Appended = appendCall'.text]_vars
    /\ []((appendCall.op = "AppendAtomic" /\ appendCall.fit
            /\ Len(buf_) < MaxOut)
          => \A k \in 1..Len(LinesOf(buf_, <<>>)) :
                Len(LinesOf(buf_, <<>>)[k]) <= maxLineLen_)

\* "ff", then "fff" with indent 1: the second fragment went to a new line.
C29_Witness ==
    /\ appendCall.op = "AppendAtomic"
    /\ appendCall.fit
    /\ appendCall.calls = 2
    /\ buf_ = <<"f", "f", "\n", " ", "f", "f", "f">>
    /\ lineLen_ = 4

====
